---- MODULE Spec2Model ----
(***************************************************************************)
(* Model of the EVALUATE stage of impact_engine_evaluate.                  *)
(*                                                                         *)
(*   Spec        the evaluation pipeline on one job directory:             *)
(*               Evaluate.execute, evaluate_confidence, review and         *)
(*               compute_review, one source statement group per step.      *)
(*   EngineSpec  ReviewEngine.review with a backend whose completion is    *)
(*               drawn from a bounded set of responses (the parser).       *)
(*   ScoreSpec   score_confidence over initiative ids and ranges, called   *)
(*               directly from several interpreter processes, or through   *)
(*               the pipeline on a routable job directory.                 *)
(*                                                                         *)
(* Numbers: a score or a range bound is an integer number of hundredths    *)
(* (0.85 is 85).  A confidence is an exact fraction [num, den].            *)
(* Arithmetic is exact; floating-point rounding is not modelled.           *)
(***************************************************************************)
EXTENDS Integers, Sequences, FiniteSets, TLC

VARIABLES
    fs,            \* the job directory: file name -> parsed content
    methods,       \* MethodReviewerRegistry._methods (the registered names)
    pc,            \* position of the running call
    api,           \* entry point of the running call
    config,        \* its config argument
    cost,          \* its cost_to_scale argument: <<>> (not given) or <<value>>
    manifest,      \* local: the loaded Manifest
    strategy,      \* local: routed strategy
    reviewer,      \* local: routed / created reviewer (its registry name)
    scorer_event,  \* local: result of load_scorer_event
    artifact,      \* local: result of reviewer.load_artifact
    confidence,    \* local: confidence chosen by the strategy block
    report,        \* local: report chosen by the strategy block
    result,        \* value returned by the last finished call
    err,           \* exception raised by the running / last call
    trace,         \* side effects of the running call, in order
    calls,         \* number of finished calls
    returned,      \* every EvaluateResult returned so far
    fs0,           \* the job directory as it was before the first call
    backend_response, \* EngineSpec: what Backend.complete returned
    completions,   \* EngineSpec: number of Backend.complete calls of the review
    hashSalt,      \* ScoreSpec: per-process salt of the builtin str hash
    procs,         \* ScoreSpec: number of interpreter processes started
    draws,         \* ScoreSpec: every direct score_confidence call so far,
                   \* [proc, salt, result]
    caller_overrides, \* ReaderSpec: the overrides argument of load_scorer_event
    prompt_registry,  \* prompt_registry._registry: name -> path
    prompt_defaults_loaded,    \* prompt_registry._defaults_loaded
    knowledge_registry,        \* knowledge_registry._registry: name -> directory
    knowledge_defaults_loaded, \* knowledge_registry._defaults_loaded
    backends,      \* BackendRegistry._backends (the registered names)
    latest,        \* history: per path registry, name -> the path most
                   \* recently passed to its register function since its
                   \* last clear
    reg_out        \* RegistrySpec: the last registry call and its outcome

vars == <<fs, methods, pc, api, config, cost, manifest, strategy, reviewer,
          scorer_event, artifact, confidence, report, result, err, trace,
          calls, returned, fs0, backend_response, completions, hashSalt,
          procs, draws, caller_overrides, prompt_registry,
          prompt_defaults_loaded, knowledge_registry,
          knowledge_defaults_loaded, backends, latest, reg_out>>

pipeVars == <<fs, methods, pc, api, config, cost, manifest, strategy, reviewer,
              scorer_event, artifact, confidence, report, result, err, trace,
              calls, returned, fs0>>
engineVars == <<backend_response, completions>>
scoreVars == <<hashSalt, procs, draws>>
readerVars == <<caller_overrides>>
registryVars == <<prompt_registry, prompt_defaults_loaded, knowledge_registry,
                  knowledge_defaults_loaded, backends, latest, reg_out>>
libVars == <<readerVars, registryVars>>
otherVars == <<engineVars, scoreVars, libVars>>

(***************************************************************************)
(* Bounds                                                                  *)
(***************************************************************************)
MaxCalls == 2
\* direct score_confidence calls with distinct outcomes (ScoreSpec)
MaxDraws == 2
\* interpreter processes started (ScoreSpec)
MaxProcs == 2
\* DIMENSION blocks, or entries of a JSON dimensions array, in one backend
\* response (EngineSpec)
MaxBlocks == 2

(***************************************************************************)
(* Generic helpers                                                         *)
(***************************************************************************)
\* dict.get(k, d)
Get(data, k, d) == IF k \in DOMAIN data THEN data[k] ELSE d

\* a call that returns v after the side effects ev
Ok(v, ev) == [ok |-> TRUE, val |-> v, ev |-> ev]

\* a call that raises e after the side effects ev
Raise(e, ev) == [ok |-> FALSE, err |-> e, ev |-> ev]

\* the elements of a sequence
Range(seq) == {seq[i] : i \in DOMAIN seq}

\* the empty dict
EmptyDict == [k \in {} |-> 0]

\* the local variables before they are assigned
Unset == [unset |-> TRUE]
UnsetStr == "<unset>"

NoErr == "none"

\* Path(...).write_text(json.dumps(content)): create or replace one file
WriteText(dir, name, content) ==
    [f \in DOMAIN dir \cup {name} |-> IF f = name THEN content ELSE dir[f]]

(***************************************************************************)
(* File names                                                              *)
(***************************************************************************)
MANIFEST_FILENAME == "manifest.json"
IMPACT_RESULTS_FILENAME == "impact_results.json"
EVALUATE_RESULT_FILENAME == "evaluate_result.json"
SCORE_RESULT_FILENAME == "score_result.json"
REVIEW_RESULT_FILENAME == "review_result.json"

\* Path(job_dir).name
JobDirName == "job-001"

(***************************************************************************)
(* review/manifest.py                                                      *)
(***************************************************************************)
\* Manifest.evaluate_strategy default and data.get("evaluate_strategy", ...)
DefaultStrategy == "agentic"

load_manifest(dir) ==
    IF MANIFEST_FILENAME \notin DOMAIN dir
    THEN Raise("FileNotFoundError", <<<<"exists", MANIFEST_FILENAME>>>>)
    ELSE LET data == dir[MANIFEST_FILENAME]
             ev == <<<<"exists", MANIFEST_FILENAME>>, <<"read", MANIFEST_FILENAME>>>>
         IN  IF "schema_version" \notin DOMAIN data THEN Raise("ValueError", ev)
             ELSE IF "model_type" \notin DOMAIN data THEN Raise("ValueError", ev)
             ELSE Ok([schema_version |-> data["schema_version"],
                      model_type |-> data["model_type"],
                      created_at |-> Get(data, "created_at", ""),
                      files |-> Get(data, "files", <<>>),
                      initiative_id |->
                          IF Get(data, "initiative_id", "") = ""
                          THEN JobDirName ELSE data["initiative_id"],
                      evaluate_strategy |->
                          Get(data, "evaluate_strategy", DefaultStrategy)], ev)

\* update_manifest: set a file entry and rewrite manifest.json.  The files
\* dict is a sequence of [name, path, format] in insertion order.
update_manifest(dir, key, entry) ==
    LET data == dir[MANIFEST_FILENAME]
        files == Get(data, "files", <<>>)
        new == [name |-> key, path |-> entry.path, format |-> entry.format]
        files2 == IF \E i \in DOMAIN files : files[i].name = key
                  THEN [i \in DOMAIN files |->
                           IF files[i].name = key THEN new ELSE files[i]]
                  ELSE Append(files, new)
        data2 == [k \in DOMAIN data \cup {"files"} |->
                      IF k = "files" THEN files2 ELSE data[k]]
    IN  WriteText(dir, MANIFEST_FILENAME, data2)

(***************************************************************************)
(* review/methods: reviewers and their registry                            *)
(***************************************************************************)
\* the reviewer classes of the package: name -> confidence_range
ReviewerClasses ==
    [experiment |-> <<85, 100>>, quasi_experimental |-> <<60, 85>>]

\* _auto_register: the built-in modules imported with the package
AutoRegistered == {"experiment"}

confidence_range(name) == ReviewerClasses[name]

\* MethodReviewerRegistry.create
create(name) ==
    IF name \notin methods
    THEN Raise("KeyError", <<<<"lookup", name>>>>)
    ELSE Ok(name, <<<<"lookup", name>>>>)

\* MethodReviewer.load_artifact (ExperimentReviewer overrides it with the
\* same body): the payload of the files the manifest lists
RECURSIVE artifact_parts(_, _)
artifact_parts(files, dir) ==
    IF files = <<>> THEN [parts |-> <<>>, ev |-> <<>>, sample_size |-> 0]
    ELSE LET entry == files[Len(files)]
             rest == artifact_parts(SubSeq(files, 1, Len(files) - 1), dir)
         IN  IF entry.path \notin DOMAIN dir
             THEN [rest EXCEPT !.ev = Append(@, <<"exists", entry.path>>)]
             ELSE LET content == dir[entry.path]
                  IN  [parts |-> Append(rest.parts,
                                        [name |-> entry.name,
                                         format |-> entry.format,
                                         content |-> content]),
                       ev |-> rest.ev \o <<<<"exists", entry.path>>,
                                            <<"read", entry.path>>>>,
                       sample_size |->
                           IF entry.format = "json" /\ rest.sample_size = 0
                           THEN Get(content, "sample_size", 0)
                           ELSE rest.sample_size]

\* load_artifact without the test for an empty files map
load_artifact_any_files(m, dir) ==
    LET a == artifact_parts(m.files, dir)
    IN  Ok([initiative_id |->
                IF m.initiative_id # "" THEN m.initiative_id ELSE JobDirName,
            artifact_text |-> a.parts,
            model_type |-> m.model_type,
            sample_size |-> a.sample_size], a.ev)

load_artifact(m, dir) ==
    IF m.files = <<>> THEN Raise("ValueError", <<>>)
    ELSE LET a == artifact_parts(m.files, dir)
         IN  Ok([initiative_id |->
                     IF m.initiative_id # "" THEN m.initiative_id ELSE JobDirName,
                 artifact_text |-> a.parts,
                 model_type |-> m.model_type,
                 sample_size |-> a.sample_size], a.ev)

(***************************************************************************)
(* score/scorer.py                                                         *)
(***************************************************************************)
\* int(hashlib.md5(s.encode()).hexdigest(), 16) % 2**32 of the initiative
\* ids of the model, as <<high 16 bits, low 16 bits>>
Md5Mod32(s) ==
    CASE s = "init-001" -> <<6881, 56819>>
      [] s = "init-999" -> <<33912, 5050>>
      [] s = "job-001" -> <<58439, 63303>>

\* the builtin hash(s) of a str, which is salted per interpreter process
builtin_hash(s) ==
    CASE hashSalt = 0 -> Md5Mod32(s)
      [] OTHER -> IF s = "init-001" THEN Md5Mod32("init-999")
                  ELSE IF s = "init-999" THEN Md5Mod32("job-001")
                  ELSE Md5Mod32("init-001")

stable_seed_salted(s) == builtin_hash(s)

\* _stable_seed
stable_seed(s) == Md5Mod32(s)

\* random.Random(seed).random(): the first draw of a generator seeded with
\* seed, in thousandths (rounded down)
first_random(seed) ==
    CASE seed = <<6881, 56819>> -> 585
      [] seed = <<33912, 5050>> -> 23
      [] seed = <<58439, 63303>> -> 241

\* rng.uniform(a, b) == a + (b - a) * rng.random(), an exact fraction
uniform_unscaled(seed, a, b) ==
    [num |-> a * 1000 + b * first_random(seed), den |-> 100000]

uniform(seed, a, b) ==
    [num |-> a * 1000 + (b - a) * first_random(seed), den |-> 100000]

\* score_confidence
score_confidence(initiative_id, range) ==
    [initiative_id |-> initiative_id,
     confidence |-> uniform(stable_seed(initiative_id), range[1], range[2]),
     confidence_range |-> range]

(***************************************************************************)
(* job_reader.py                                                           *)
(***************************************************************************)
NumericFields ==
    {"ci_upper", "effect_estimate", "ci_lower", "cost_to_scale", "sample_size"}

\* a JSON number is an integer n, or Half(n) for n + 0.5
Half(n) == [whole |-> n, half |-> TRUE]
IsHalf(v) == v \notin Int

\* float(v) of a JSON number: the same number
py_float(v) == v

\* int(v) of a JSON number: truncation towards zero
py_int(v) ==
    IF ~IsHalf(v) THEN v
    ELSE IF v.whole >= 0 THEN v.whole ELSE v.whole + 1

\* load_scorer_event with the overrides applied before the file is read
load_scorer_event_file_wins(m, dir, overrides) ==
    IF IMPACT_RESULTS_FILENAME \notin DOMAIN dir
    THEN Raise("FileNotFoundError", <<<<"exists", IMPACT_RESULTS_FILENAME>>>>)
    ELSE LET data == dir[IMPACT_RESULTS_FILENAME]
         IN  Ok([k \in {"initiative_id", "model_type"} \cup NumericFields
                        \cup DOMAIN overrides |->
                    IF k = "initiative_id"
                    THEN (IF m.initiative_id # "" THEN m.initiative_id
                          ELSE JobDirName)
                    ELSE IF k = "model_type" THEN m.model_type
                    ELSE IF k \in DOMAIN data
                    THEN (IF k = "sample_size" THEN py_int(data[k])
                          ELSE py_float(data[k]))
                    ELSE Get(overrides, k, 0)],
                <<<<"exists", IMPACT_RESULTS_FILENAME>>,
                  <<"read", IMPACT_RESULTS_FILENAME>>>>)

load_scorer_event(m, dir, overrides) ==
    IF IMPACT_RESULTS_FILENAME \notin DOMAIN dir
    THEN Raise("FileNotFoundError", <<<<"exists", IMPACT_RESULTS_FILENAME>>>>)
    ELSE LET data == dir[IMPACT_RESULTS_FILENAME]
             event == [k \in {"initiative_id", "model_type"} \cup NumericFields |->
                          IF k = "initiative_id"
                          THEN (IF m.initiative_id # "" THEN m.initiative_id
                                ELSE JobDirName)
                          ELSE IF k = "model_type" THEN m.model_type
                          ELSE IF k = "sample_size"
                          THEN py_int(Get(data, k, 0))
                          ELSE py_float(Get(data, k, 0))]
             updated == [k \in DOMAIN event \cup DOMAIN overrides |->
                            IF k \in DOMAIN overrides THEN overrides[k]
                            ELSE event[k]]
         IN  Ok(IF DOMAIN overrides # {} THEN updated ELSE event,
                <<<<"exists", IMPACT_RESULTS_FILENAME>>,
                  <<"read", IMPACT_RESULTS_FILENAME>>>>)

(***************************************************************************)
(* config.py                                                               *)
(***************************************************************************)
NoneConfig == [kind |-> "none"]
DictConfig(raw) == [kind |-> "dict", raw |-> raw]

\* BackendConfig(model=, temperature=, max_tokens=, extra=): a dataclass
\* without __post_init__, so the fields are stored as given.  Temperatures
\* are in hundredths.
BackendConfig(model, temperature, max_tokens, extra) ==
    [model |-> model, temperature |-> temperature, max_tokens |-> max_tokens,
     extra |-> extra]

\* load_config: always a ReviewConfig dataclass (environment overrides unset)
load_config(source) ==
    LET raw == IF source.kind = "dict" THEN source.raw ELSE EmptyDict
        backend_raw == Get(raw, "backend", EmptyDict)
        methods_raw == Get(raw, "methods", EmptyDict)
    IN  [class |-> "ReviewConfig",
         backend |->
             BackendConfig(
                 Get(backend_raw, "model", "claude-sonnet-4-5-20250929"),
                 py_float(Get(backend_raw, "temperature", 0)),
                 py_int(Get(backend_raw, "max_tokens", 4096)),
                 [k \in DOMAIN backend_raw \
                        {"model", "temperature", "max_tokens"} |->
                     backend_raw[k]]),
         methods |-> [n \in DOMAIN methods_raw |->
                         [prompt |-> Get(methods_raw[n], "prompt", ""),
                          knowledge_base |->
                              Get(methods_raw[n], "knowledge_base", "")]]]

(***************************************************************************)
(* adapter.py / api.py: EvaluationRouter                                   *)
(***************************************************************************)
KNOWN_STRATEGIES == {"score", "review"}

\* a router that looks the reviewer up before it checks the strategy
route_lookup_first(m) ==
    LET r == create(m.model_type)
    IN  IF ~r.ok THEN r
        ELSE IF m.evaluate_strategy \notin KNOWN_STRATEGIES
        THEN Raise("ValueError", r.ev)
        ELSE Ok([strategy |-> m.evaluate_strategy, reviewer |-> r.val], r.ev)

\* EvaluationRouter.route
route(m) ==
    IF m.evaluate_strategy \notin KNOWN_STRATEGIES
    THEN Raise("ValueError", <<>>)
    ELSE LET r == create(m.model_type)
         IN  IF ~r.ok THEN r
             ELSE Ok([strategy |-> m.evaluate_strategy, reviewer |-> r.val],
                     r.ev)

\* the condition of the strategy block: if strategy == "score" ... else ...
takes_every_strategy(s) == TRUE

takes_score_branch(s) == s = "score"

\* f"{x:.2f}" of a number of hundredths: <<integer part, two decimals>>
Fmt2(h) == <<h \div 100, h % 100>>

\* the report sentence of the score strategy
score_report(range) ==
    [text |-> "Confidence drawn uniformly between {lo} and {hi}",
     lo |-> Fmt2(range[1]), hi |-> Fmt2(range[2])]

\* a writer that drops the score result
write_score_result_skipped(dir, score_result) == dir

\* _write_score_result
write_score_result(dir, score_result) ==
    WriteText(dir, SCORE_RESULT_FILENAME, score_result)

\* a writer that also lists the result in the manifest
write_evaluate_result_listed(dir, r) ==
    update_manifest(WriteText(dir, EVALUATE_RESULT_FILENAME, r),
                    "evaluate_result",
                    [path |-> EVALUATE_RESULT_FILENAME, format |-> "json"])

\* _write_evaluate_result
write_evaluate_result(dir, r) == WriteText(dir, EVALUATE_RESULT_FILENAME, r)

(***************************************************************************)
(* The job directories the upstream stage may hand over                    *)
(***************************************************************************)
Missing == "<missing>"

ImpactResultsEntry ==
    [name |-> "impact_results", path |-> IMPACT_RESULTS_FILENAME,
     format |-> "json"]

\* manifest.json with the given values, a Missing value omitting the key;
\* fl is "missing" (no files key), "empty" or "one"
ManifestJson(sv, mt, es, id, fl) ==
    LET full == [schema_version |-> sv, model_type |-> mt,
                 evaluate_strategy |-> es, initiative_id |-> id]
        keys == {k \in DOMAIN full : full[k] # Missing}
                    \cup (IF fl = "missing" THEN {} ELSE {"files"})
    IN  [k \in keys |->
            IF k = "files"
            THEN (IF fl = "one" THEN <<ImpactResultsEntry>> ELSE <<>>)
            ELSE full[k]]

ManifestJsons ==
    {ManifestJson(sv, mt, es, id, fl) :
        sv \in {Missing, "2.0"},
        mt \in {Missing, "experiment", "quasi_experimental", "unknown_method_xyz"},
        es \in {Missing, "score", "review", "unknown_xyz"},
        id \in {Missing, "", "init-001"},
        fl \in {"missing", "empty", "one"}}

ImpactResultsJsons ==
    {EmptyDict,
     [ci_upper |-> 15, effect_estimate |-> 10, ci_lower |-> 5,
      cost_to_scale |-> 100, sample_size |-> 50]}

JobDirs ==
    LET names == {MANIFEST_FILENAME, IMPACT_RESULTS_FILENAME}
    IN  UNION {
          {[f \in present |-> IF f = MANIFEST_FILENAME THEN m ELSE r] :
              m \in ManifestJsons, r \in ImpactResultsJsons}
          : present \in SUBSET names}

\* no config, a backend section, or a prompt name configured for the
\* experiment method (a registered name, and one that is not)
Configs ==
    {NoneConfig, DictConfig([backend |-> [model |-> "mock-model"]])}
        \cup {DictConfig([methods |-> [experiment |-> [prompt |-> name]]]) :
                name \in {"experiment_review", "no_such_prompt_xyz"}}

Costs == {<<>>, <<250>>}

EvalApis == {"execute", "evaluate_confidence"}
ReviewApis == {"review", "compute_review"}

(***************************************************************************)
(* Spec: the calls, one step per statement group                           *)
(***************************************************************************)
locals == <<manifest, strategy, reviewer, scorer_event, artifact, confidence,
            report>>
args == <<api, config, cost>>

PipeInit ==
    /\ fs \in JobDirs
    /\ fs0 = fs
    /\ methods = AutoRegistered
    /\ pc = "idle"
    /\ api = UnsetStr /\ config = NoneConfig /\ cost = <<>>
    /\ manifest = Unset /\ strategy = UnsetStr /\ reviewer = UnsetStr
    /\ scorer_event = Unset /\ artifact = Unset
    /\ confidence = Unset /\ report = Unset
    /\ result = Unset /\ err = NoErr /\ trace = <<>>
    /\ calls = 0 /\ returned = {}

EngineIdle == backend_response = Unset /\ completions = 0
ScoreIdle == hashSalt = 0 /\ procs = 0 /\ draws = {}
ReaderIdle == caller_overrides = Unset

\* review/backends/__init__.py _auto_register: the three backend modules
\* register themselves when the package is imported
BackendsRegistered == {"anthropic", "litellm", "openai"}

RegistryIdle ==
    /\ prompt_registry = EmptyDict /\ prompt_defaults_loaded = FALSE
    /\ knowledge_registry = EmptyDict /\ knowledge_defaults_loaded = FALSE
    /\ backends = BackendsRegistered
    /\ latest = [prompts |-> EmptyDict, knowledge |-> EmptyDict]
    /\ reg_out = Unset
LibIdle == ReaderIdle /\ RegistryIdle

Init == PipeInit /\ EngineIdle /\ ScoreIdle /\ LibIdle

\* importing a reviewer module runs its @MethodReviewerRegistry.register
ImportReviewerModule(name) ==
    /\ pc = "idle"
    /\ name \notin methods
    /\ methods' = methods \cup {name}
    /\ UNCHANGED <<fs, pc, args, locals, result, err, trace, calls, returned,
                   fs0, otherVars>>

\* a caller enters one of the four entry points
Call(a, c, k) ==
    /\ pc = "idle"
    /\ calls < MaxCalls
    /\ api' = a /\ config' = c /\ cost' = k
    /\ pc' = IF a \in EvalApis THEN "load" ELSE "rv_config"
    /\ trace' = <<>> /\ err' = NoErr /\ result' = Unset
    /\ UNCHANGED <<fs, methods, locals, calls, returned, fs0, otherVars>>

\* execute / evaluate_confidence: manifest = load_manifest(job_dir)
LoadManifest ==
    /\ pc = "load"
    /\ LET r == load_manifest(fs)
       IN  /\ trace' = trace \o r.ev
           /\ IF r.ok
              THEN manifest' = r.val /\ pc' = "route" /\ err' = err
              ELSE manifest' = manifest /\ pc' = "error" /\ err' = r.err
    /\ UNCHANGED <<fs, methods, args, strategy, reviewer, scorer_event,
                   artifact, confidence, report, result, calls, returned, fs0, otherVars>>

\* strategy, reviewer = router.route(manifest)
Route ==
    /\ pc = "route"
    /\ LET r == route(manifest)
       IN  /\ trace' = trace \o r.ev
           /\ IF r.ok
              THEN /\ strategy' = r.val.strategy
                   /\ reviewer' = r.val.reviewer
                   /\ pc' = "event" /\ err' = err
              ELSE /\ UNCHANGED <<strategy, reviewer>>
                   /\ pc' = "error" /\ err' = r.err
    /\ UNCHANGED <<fs, methods, args, manifest, scorer_event, artifact,
                   confidence, report, result, calls, returned, fs0, otherVars>>

\* the overrides dict built from the call's cost_to_scale
overrides_of(k) ==
    IF k = <<>> THEN EmptyDict ELSE [f \in {"cost_to_scale"} |-> k[1]]

\* scorer_event = load_scorer_event(manifest, job_dir, overrides or None)
LoadScorerEvent ==
    /\ pc = "event"
    /\ LET r == load_scorer_event(manifest, fs, overrides_of(cost))
       IN  /\ trace' = trace \o r.ev
           /\ IF r.ok
              THEN scorer_event' = r.val /\ pc' = "dispatch" /\ err' = err
              ELSE scorer_event' = scorer_event /\ pc' = "error"
                   /\ err' = r.err
    /\ UNCHANGED <<fs, methods, args, manifest, strategy, reviewer, artifact,
                   confidence, report, result, calls, returned, fs0, otherVars>>

\* a score block that draws from a narrowed range when the event carries
\* the overridden cost
score_block_cost_aware(event, range) ==
    LET narrowed == IF event["cost_to_scale"] = 250
                    THEN <<range[1], range[1]>> ELSE range
    IN  [score_result |-> score_confidence(event["initiative_id"], narrowed),
         report |-> score_report(narrowed)]

\* the score block: what it computes from the scorer event and the
\* reviewer's confidence_range
score_block(event, range) ==
    [score_result |-> score_confidence(event["initiative_id"], range),
     report |-> score_report(range)]

\* if strategy == "score": score_confidence, _write_score_result, report
ScoreBranch ==
    /\ pc = "dispatch"
    /\ takes_score_branch(strategy)
    /\ LET range == confidence_range(reviewer)
           score_result == score_block(scorer_event, range).score_result
       IN  /\ fs' = write_score_result(fs, score_result)
           /\ confidence' = score_result.confidence
           /\ report' = score_block(scorer_event, range).report
           /\ trace' = trace \o <<<<"score", scorer_event["initiative_id"]>>,
                                  <<"write", SCORE_RESULT_FILENAME>>>>
    /\ pc' = "tail"
    /\ UNCHANGED <<methods, args, manifest, strategy, reviewer, scorer_event,
                   artifact, result, err, calls, returned, fs0, otherVars>>

\* else: review_result = review(job_dir, config=...)
ReviewBranch ==
    /\ pc = "dispatch"
    /\ ~takes_score_branch(strategy)
    /\ pc' = "rv_config"
    /\ UNCHANGED <<fs, methods, args, locals, result, err, trace, calls,
                   returned, fs0, otherVars>>

\* json.dumps that refuses the result of a scored evaluation
dumps_rejecting_score(r) ==
    IF r.strategy = "score" THEN Raise("TypeError", <<>>) ELSE Ok(r, <<>>)

\* json.dumps(asdict(result)) of an EvaluateResult: its fields are strings,
\* numbers and what json.loads gave, all of which serialise
dumps(r) == Ok(r, <<>>)

\* result = EvaluateResult(...); _write_evaluate_result(job_dir, result)
SharedTail ==
    /\ pc = "tail"
    /\ LET r == [initiative_id |-> scorer_event["initiative_id"],
                 confidence |-> confidence,
                 confidence_range |-> confidence_range(reviewer),
                 strategy |-> strategy,
                 report |-> report]
       IN  IF dumps(r).ok
           THEN /\ fs' = write_evaluate_result(fs, dumps(r).val)
                /\ result' = r
                /\ returned' = returned \cup {r}
                /\ trace' = Append(trace, <<"write", EVALUATE_RESULT_FILENAME>>)
                /\ pc' = "done" /\ err' = err
           ELSE /\ pc' = "error" /\ err' = dumps(r).err
                /\ UNCHANGED <<fs, result, returned, trace>>
    /\ UNCHANGED <<methods, args, locals, calls, fs0, otherVars>>

(***************************************************************************)
(* review/api.py: compute_review and review, entered directly or from the  *)
(* review branch of an evaluation                                          *)
(***************************************************************************)
\* config_dict = load_config(config)
RvLoadConfig ==
    /\ pc = "rv_config"
    /\ trace' = Append(trace, <<"load_config", config.kind>>)
    /\ pc' = "rv_load"
    /\ UNCHANGED <<fs, methods, args, locals, result, err, calls, returned,
                   fs0, otherVars>>

\* manifest = load_manifest(job_dir)
RvLoadManifest ==
    /\ pc = "rv_load"
    /\ LET r == load_manifest(fs)
       IN  /\ trace' = trace \o r.ev
           /\ IF r.ok
              THEN manifest' = r.val /\ pc' = "rv_create" /\ err' = err
              ELSE manifest' = manifest /\ pc' = "error" /\ err' = r.err
    /\ UNCHANGED <<fs, methods, args, strategy, reviewer, scorer_event,
                   artifact, confidence, report, result, calls, returned, fs0, otherVars>>

\* reviewer = MethodReviewerRegistry.create(manifest.model_type)
RvCreate ==
    /\ pc = "rv_create"
    /\ LET r == create(manifest.model_type)
       IN  /\ trace' = trace \o r.ev
           /\ IF r.ok
              THEN reviewer' = r.val /\ pc' = "rv_artifact" /\ err' = err
              ELSE reviewer' = reviewer /\ pc' = "error" /\ err' = r.err
    /\ UNCHANGED <<fs, methods, args, manifest, strategy, scorer_event,
                   artifact, confidence, report, result, calls, returned, fs0, otherVars>>

\* artifact = reviewer.load_artifact(manifest, job_dir)
RvLoadArtifact ==
    /\ pc = "rv_artifact"
    /\ LET r == load_artifact(manifest, fs)
       IN  /\ trace' = trace \o r.ev
           /\ IF r.ok
              THEN artifact' = r.val /\ pc' = "rv_method" /\ err' = err
              ELSE artifact' = artifact /\ pc' = "error" /\ err' = r.err
    /\ UNCHANGED <<fs, methods, args, manifest, strategy, reviewer,
                   scorer_event, confidence, report, result, calls, returned,
                   fs0, otherVars>>

\* method = config_dict.get("methods", {}).get(manifest.model_type, {}):
\* config_dict is the ReviewConfig dataclass load_config returned, which has
\* no get attribute, so the statement raises AttributeError for every config
method_config(cfg, model_type) ==
    IF cfg.class = "ReviewConfig"
    THEN Raise("AttributeError", <<>>)
    ELSE Ok(Get(Get(cfg, "methods", EmptyDict), model_type, EmptyDict), <<>>)

RvMethodConfig ==
    /\ pc = "rv_method"
    /\ LET r == method_config(load_config(config), manifest.model_type)
       IN  /\ ~r.ok
           /\ pc' = "error"
           /\ err' = r.err
    /\ UNCHANGED <<fs, methods, args, locals, result, trace, calls, returned,
                   fs0, otherVars>>

\* the call returns to its caller, or its exception reaches the caller
Return ==
    /\ pc \in {"done", "error"}
    /\ pc' = "idle"
    /\ calls' = calls + 1
    /\ api' = UnsetStr /\ config' = NoneConfig /\ cost' = <<>>
    /\ manifest' = Unset /\ strategy' = UnsetStr /\ reviewer' = UnsetStr
    /\ scorer_event' = Unset /\ artifact' = Unset
    /\ confidence' = Unset /\ report' = Unset
    /\ UNCHANGED <<fs, methods, result, err, trace, returned, fs0, otherVars>>

PipeNext ==
    \/ \E name \in DOMAIN ReviewerClasses : ImportReviewerModule(name)
    \/ \E a \in EvalApis \cup ReviewApis, c \in Configs, k \in Costs :
           Call(a, c, IF a \in ReviewApis THEN <<>> ELSE k)
    \/ LoadManifest
    \/ Route
    \/ LoadScorerEvent
    \/ ScoreBranch
    \/ ReviewBranch
    \/ SharedTail
    \/ RvLoadConfig
    \/ RvLoadManifest
    \/ RvCreate
    \/ RvLoadArtifact
    \/ RvMethodConfig
    \/ Return

Next == PipeNext

Spec == Init /\ [][Next]_vars

(***************************************************************************)
(* Claims checked under Spec                                               *)
(***************************************************************************)
\* the kinds of side effect the running call has had so far
Kinds == {trace[i][1] : i \in DOMAIN trace}

ManifestEvents ==
    <<<<"exists", MANIFEST_FILENAME>>, <<"read", MANIFEST_FILENAME>>>>

RvPcs == {"rv_config", "rv_load", "rv_create", "rv_artifact", "rv_method"}

EvaluateResultKeys ==
    {"initiative_id", "confidence", "confidence_range", "strategy", "report"}

C2_StrategyDispatch ==
    (api \in EvalApis /\ manifest # Unset)
    => /\ manifest.evaluate_strategy = "score"
            => /\ pc \notin RvPcs
               /\ Kinds \cap {"load_config", "create_backend", "complete"} = {}
       /\ manifest.evaluate_strategy = "review"
            => /\ "score" \notin Kinds
               /\ SCORE_RESULT_FILENAME \notin DOMAIN fs \ DOMAIN fs0

C2_Witness ==
    /\ api \in EvalApis
    /\ pc = "done"
    /\ manifest.evaluate_strategy = "score"
    /\ "score" \in Kinds

\* C3: whatever calls were made on the job directory, manifest.json is what
\* it was before the first call (absent if it was absent, else the same
\* content, files map included).
C3_ManifestNeverRewritten ==
    /\ MANIFEST_FILENAME \in DOMAIN fs <=> MANIFEST_FILENAME \in DOMAIN fs0
    /\ MANIFEST_FILENAME \in DOMAIN fs
           => fs[MANIFEST_FILENAME] = fs0[MANIFEST_FILENAME]

C3_Witness ==
    /\ pc = "idle"
    /\ calls >= 2
    /\ EVALUATE_RESULT_FILENAME \in DOMAIN fs
    /\ err = "AttributeError"

\* C4: when an evaluation completes, evaluate_result.json exists, was written
\* by this call, holds the returned EvaluateResult with exactly its five
\* keys; and score_result.json was written by this call (and holds the
\* ScoreResult of this call) if and only if the strategy is "score".
C4_ResultFilesWritten ==
    (api \in EvalApis /\ pc = "done")
    => /\ <<"write", EVALUATE_RESULT_FILENAME>> \in Range(trace)
       /\ EVALUATE_RESULT_FILENAME \in DOMAIN fs
       /\ fs[EVALUATE_RESULT_FILENAME] = result
       /\ DOMAIN fs[EVALUATE_RESULT_FILENAME] = EvaluateResultKeys
       /\ result.strategy = strategy
       /\ <<"write", SCORE_RESULT_FILENAME>> \in Range(trace)
              <=> strategy = "score"
       /\ strategy = "score"
              => /\ SCORE_RESULT_FILENAME \in DOMAIN fs
                 /\ DOMAIN fs[SCORE_RESULT_FILENAME] =
                        {"initiative_id", "confidence", "confidence_range"}
                 /\ fs[SCORE_RESULT_FILENAME].confidence = result.confidence
       /\ strategy # "score"
              => SCORE_RESULT_FILENAME \notin DOMAIN fs \ DOMAIN fs0

C4_Witness ==
    /\ api \in EvalApis
    /\ pc = "done"
    /\ strategy = "score"
    /\ SCORE_RESULT_FILENAME \in DOMAIN fs
    /\ EVALUATE_RESULT_FILENAME \in DOMAIN fs

\* C5: a manifest.json that omits evaluate_strategy loads with
\* evaluate_strategy "review" (as does a Manifest built without the field),
\* and an explicit evaluate_strategy is returned unchanged.
C5_DefaultStrategyIsReview ==
    (manifest # Unset /\ MANIFEST_FILENAME \in DOMAIN fs)
    => manifest.evaluate_strategy =
           Get(fs[MANIFEST_FILENAME], "evaluate_strategy", "review")

\* C6: an evaluation of a job with model_type "experiment", strategy
\* "review", a listed and present impact_results.json and a config dict
\* ends without error, with strategy "review", the review's overall score
\* 0.80 as confidence and the ReviewResult (5 dimensions, overall_score,
\* raw_response) as report.
C6_ReviewEndToEnd ==
    (/\ api \in EvalApis
     /\ pc \in {"done", "error"}
     /\ config.kind = "dict"
     /\ manifest # Unset
     /\ manifest.model_type = "experiment"
     /\ manifest.evaluate_strategy = "review"
     /\ manifest.files = <<ImpactResultsEntry>>
     /\ IMPACT_RESULTS_FILENAME \in DOMAIN fs)
    => /\ pc = "done"
       /\ result.strategy = "review"
       /\ result.confidence = [num |-> 80, den |-> 100]
       /\ Len(result.report.dimensions) = 5
       /\ result.report.overall_score = result.confidence
       /\ "raw_response" \in DOMAIN result.report

\* C14: an evaluation on the review strategy whose review inputs loaded
\* completes whatever the review yields: it returns an EvaluateResult with
\* strategy "review" and writes it to evaluate_result.json, and a review
\* with overall score 0.0 and no dimensions gives confidence 0.0.
C14_EmptyReviewNonFatal ==
    (/\ api \in EvalApis
     /\ strategy = "review"
     /\ artifact # Unset
     /\ pc \in {"done", "error"})
    => /\ pc = "done"
       /\ result.strategy = "review"
       /\ (result.report.dimensions = <<>>
              /\ result.report.overall_score.num = 0)
          => result.confidence.num = 0
       /\ EVALUATE_RESULT_FILENAME \in DOMAIN fs
       /\ fs[EVALUATE_RESULT_FILENAME] = result

(***************************************************************************)
(* ScoreSpec: score_confidence called directly (several interpreter        *)
(* processes, as the tests of score/scorer.py do) or by an evaluation of   *)
(* a job directory that the router accepts                                 *)
(***************************************************************************)
\* initiative ids passed to score_confidence
InitiativeIds == {"init-001", "init-999", "job-001"}

\* bounds of the confidence ranges, in hundredths; (lower, upper) pairs
RangeBounds == {0, 60, 85, 100}
ConfidenceRanges == {r \in RangeBounds \X RangeBounds : r[1] <= r[2]}

\* values of the per-process str hash salt (PYTHONHASHSEED)
HashSalts == {0, 1}

\* job directories with a loadable manifest of a known methodology and a
\* listed, present impact_results.json
ScoreJobDirs ==
    {d \in JobDirs :
        /\ DOMAIN d = {MANIFEST_FILENAME, IMPACT_RESULTS_FILENAME}
        /\ {"schema_version", "model_type", "files"}
               \subseteq DOMAIN d[MANIFEST_FILENAME]
        /\ d[MANIFEST_FILENAME]["model_type"] \in DOMAIN ReviewerClasses
        /\ d[MANIFEST_FILENAME]["files"] # <<>>}

\* no pipeline call is running and none can start
PipeOff ==
    /\ fs = EmptyDict /\ fs0 = EmptyDict
    /\ methods = AutoRegistered
    /\ pc = "off"
    /\ api = UnsetStr /\ config = NoneConfig /\ cost = <<>>
    /\ manifest = Unset /\ strategy = UnsetStr /\ reviewer = UnsetStr
    /\ scorer_event = Unset /\ artifact = Unset
    /\ confidence = Unset /\ report = Unset
    /\ result = Unset /\ err = NoErr /\ trace = <<>>
    /\ calls = 0 /\ returned = {}

ScoreInit ==
    /\ EngineIdle /\ LibIdle
    /\ \/ PipeOff /\ hashSalt \in HashSalts /\ procs = 1 /\ draws = {}
       \/ PipeInit /\ fs \in ScoreJobDirs /\ ScoreIdle

\* a test process calls score_confidence(initiative_id, range)
ScoreCall(initiative_id, range) ==
    /\ procs >= 1
    /\ Cardinality(draws) < MaxDraws
    /\ draws' = draws \cup {[proc |-> procs, salt |-> hashSalt,
                             result |-> score_confidence(initiative_id, range)]}
    /\ UNCHANGED <<pipeVars, engineVars, libVars, hashSalt, procs>>

\* a new interpreter process starts, with its own hash salt
NewProcess(salt) ==
    /\ procs >= 1
    /\ procs < MaxProcs
    /\ procs' = procs + 1
    /\ hashSalt' = salt
    /\ UNCHANGED <<pipeVars, engineVars, libVars, draws>>

ScoreNext ==
    \/ \E id \in InitiativeIds, range \in ConfidenceRanges : ScoreCall(id, range)
    \/ \E salt \in HashSalts : NewProcess(salt)
    \/ PipeNext

ScoreSpec == ScoreInit /\ [][ScoreNext]_vars

(***************************************************************************)
(* Claims checked under ScoreSpec                                          *)
(***************************************************************************)
\* range[1] <= c <= range[2] for a fraction c and a range in hundredths
WithinRange(c, range) ==
    /\ range[1] * c.den <= c.num * 100
    /\ c.num * 100 <= range[2] * c.den

\* C7: every confidence score_confidence returned, for any initiative id
\* and any range (lower, upper), lies within that range; and an evaluation
\* that completes on the score strategy returns a confidence within its
\* reviewer's range, which for an "experiment" job is [0.85, 1.0].
C7_ConfidenceWithinRange ==
    /\ \A d \in draws :
           WithinRange(d.result.confidence, d.result.confidence_range)
    /\ \A r \in returned :
           r.strategy = "score" => WithinRange(r.confidence, r.confidence_range)
    /\ (/\ api \in EvalApis /\ pc = "done" /\ strategy = "score"
        /\ manifest.model_type = "experiment")
       => /\ result.confidence_range = <<85, 100>>
          /\ WithinRange(result.confidence, <<85, 100>>)

\* a draw strictly inside [0.85, 1.0], and one from a degenerate range
C7_Witness ==
    /\ \E d \in draws :
           /\ d.result.confidence_range = <<85, 100>>
           /\ d.result.confidence.num > 85 * 1000
           /\ d.result.confidence.num < 100 * 1000
    /\ \E d \in draws : d.result.confidence_range = <<60, 60>>

\* C8: two score_confidence calls with the same initiative id and range
\* return the same ScoreResult, whichever process (and hash salt) they ran
\* in; and all evaluations completed on one job directory returned the same
\* EvaluateResult, the score_result.json and evaluate_result.json left by an
\* earlier run having no influence on a later one.
C8_ScoreDeterministic ==
    /\ \A d1, d2 \in draws :
           (/\ d1.result.initiative_id = d2.result.initiative_id
            /\ d1.result.confidence_range = d2.result.confidence_range)
           => d1.result.confidence = d2.result.confidence
    /\ \A r1, r2 \in returned : r1 = r2
    /\ (api \in EvalApis /\ pc = "done") => returned = {result}

\* the same input scored in two processes with different hash salts
C8_Witness ==
    \E d1, d2 \in draws :
        /\ d1.proc # d2.proc
        /\ d1.salt # d2.salt
        /\ d1.result.initiative_id = d2.result.initiative_id
        /\ d1.result.confidence_range = d2.result.confidence_range

(***************************************************************************)
(* review/engine.py: response parsing.                                     *)
(*                                                                         *)
(* A backend response is [lines, json]: the text lines that open with one  *)
(* of the keys the patterns look for (any other line has key "TEXT"),      *)
(* preceded by a JSON document or NoJson.  A line is [key, text, tok]: the *)
(* rest of a DIMENSION, JUSTIFICATION or TEXT line is text; the rest of a  *)
(* SCORE or OVERALL line is tok, a sequence of characters.  Blank lines    *)
(* and surrounding whitespace are not modelled.                            *)
(***************************************************************************)
Line(key, text, tok) == [key |-> key, text |-> text, tok |-> tok]

NoJson == [t |-> "none"]
Num(v) == [t |-> "num", v |-> v]
Str(chars) == [t |-> "str", s |-> chars]
Null == [t |-> "null"]
List(items) == [t |-> "list", items |-> items]
Object(members) == [t |-> "object", members |-> members]

Digits == {"0", "1", "2", "3", "4", "5", "6", "7", "8", "9"}

DigitVal(c) ==
    CASE c = "0" -> 0 [] c = "1" -> 1 [] c = "2" -> 2 [] c = "3" -> 3
      [] c = "4" -> 4 [] c = "5" -> 5 [] c = "6" -> 6 [] c = "7" -> 7
      [] c = "8" -> 8 [] c = "9" -> 9

\* the character class [\d.] of both patterns
ScoreClass == Digits \cup {"."}

\* (?P<score>[\d.]+)\s*\n : the whole rest of the SCORE line is in the class
MatchesScoreClass(tok) ==
    tok # <<>> /\ \A i \in DOMAIN tok : tok[i] \in ScoreClass

\* OVERALL:\s*([\d.]+) : the longest prefix of the token in the class
RECURSIVE class_prefix(_)
class_prefix(tok) ==
    IF tok = <<>> \/ Head(tok) \notin ScoreClass THEN <<>>
    ELSE <<Head(tok)>> \o class_prefix(Tail(tok))

RECURSIVE digits_value(_)
digits_value(ds) ==
    IF ds = <<>> THEN 0
    ELSE digits_value(SubSeq(ds, 1, Len(ds) - 1)) * 10 + DigitVal(ds[Len(ds)])

\* float(str) for a str of digits, dots, letters and a leading sign, in
\* hundredths: ValueError unless it is [sign] digits [. digits] with a digit
\* (exponents, inf, nan and more than two decimals are outside the tokens
\* of the model)
float_of_str(tok) ==
    LET signed == tok # <<>> /\ tok[1] \in {"-", "+"}
        body == IF signed THEN Tail(tok) ELSE tok
        dots == {i \in DOMAIN body : body[i] = "."}
        p == IF dots = {} THEN Len(body) + 1 ELSE CHOOSE i \in dots : TRUE
        whole == SubSeq(body, 1, p - 1)
        frac == SubSeq(body, p + 1, Len(body)) \o <<"0", "0">>
        magnitude == digits_value(whole) * 100
                         + digits_value(SubSeq(frac, 1, 2))
    IN  IF /\ \A i \in DOMAIN body : body[i] \in ScoreClass
           /\ Cardinality(dots) <= 1
           /\ \E i \in DOMAIN body : body[i] \in Digits
        THEN Ok(IF signed /\ tok[1] = "-" THEN 0 - magnitude ELSE magnitude,
                <<>>)
        ELSE Raise("ValueError", <<>>)

\* float(x) for a decoded JSON value
float_of_json(x) ==
    CASE x.t = "num" -> Ok(x.v, <<>>)
      [] x.t = "str" -> float_of_str(x.s)
      [] OTHER -> Raise("TypeError", <<>>)

\* max(0.0, min(1.0, score)), in hundredths
Clamp(score) == IF score < 0 THEN 0 ELSE IF score > 100 THEN 100 ELSE score

ReviewDimension(name, score, justification) ==
    [name |-> name, score |-> score, justification |-> justification]

\* the pattern at line i: DIMENSION:\s*(\S+)\s*\n SCORE:\s*([\d.]+)\s*\n
\* JUSTIFICATION:\s*(.+?)
BlockAt(lines, i) ==
    /\ i + 2 <= Len(lines)
    /\ lines[i].key = "DIMENSION" /\ lines[i].text # ""
    /\ lines[i + 1].key = "SCORE" /\ MatchesScoreClass(lines[i + 1].tok)
    /\ lines[i + 2].key = "JUSTIFICATION" /\ lines[i + 2].text # ""

\* (?=\nDIMENSION:|\nOVERALL:|\Z): the last line of the justification that
\* has reached line k
RECURSIVE justification_end(_, _)
justification_end(lines, k) ==
    IF k + 1 <= Len(lines) /\ lines[k + 1].key \notin {"DIMENSION", "OVERALL"}
    THEN justification_end(lines, k + 1)
    ELSE k

\* the text of a justification: the rest of its first line, then the lines
\* it runs over
justification_text(lines, j, k) ==
    <<Line("TEXT", lines[j].text, <<>>)>> \o SubSeq(lines, j + 1, k)

\* for match in pattern.finditer(response): ... dimensions.append(...)
RECURSIVE text_dimensions(_, _)
text_dimensions(lines, i) ==
    IF i > Len(lines) THEN <<>>
    ELSE IF BlockAt(lines, i)
    THEN LET k == justification_end(lines, i + 2)
             f == float_of_str(lines[i + 1].tok)
             score == IF f.ok THEN f.val ELSE 0
         IN  <<ReviewDimension(lines[i].text, Clamp(score),
                               justification_text(lines, i + 2, k))>>
                 \o text_dimensions(lines, k + 1)
    ELSE text_dimensions(lines, i + 1)

\* json.loads(response): the response must be the JSON document alone
json_loads(response) ==
    IF response.lines = <<>> /\ response.json # NoJson
    THEN Ok(response.json, <<>>)
    ELSE Raise("JSONDecodeError", <<>>)

\* for d in data["dimensions"]: dimensions.append(ReviewDimension(...));
\* an exception leaves in the list (ev) what was appended before it
RECURSIVE json_dimensions(_, _)
json_dimensions(items, acc) ==
    IF items = <<>> THEN Ok(acc, acc)
    ELSE LET d == Head(items)
         IN  IF d.t # "object" THEN Raise("AttributeError", acc)
             ELSE LET f == float_of_json(Get(d.members, "score", Num(0)))
                  IN  IF ~f.ok THEN Raise(f.err, acc)
                      ELSE json_dimensions(
                               Tail(items),
                               Append(acc, ReviewDimension(
                                   Get(d.members, "name", "unknown"),
                                   Clamp(f.val),
                                   <<Line("TEXT",
                                          Get(d.members, "justification", ""),
                                          <<>>)>>)))

\* _parse_dimensions (expected is not used by the code)
parse_dimensions(response, expected) ==
    LET dimensions == text_dimensions(response.lines, 1)
        data == json_loads(response)
    IN  IF dimensions # <<>> THEN Ok(dimensions, <<>>)
        ELSE IF ~data.ok THEN Ok(<<>>, <<>>)
        ELSE IF ~(data.val.t = "object"
                  /\ "dimensions" \in DOMAIN data.val.members)
        THEN Ok(<<>>, <<>>)
        ELSE LET ds == data.val.members["dimensions"]
                 r == IF ds.t = "list" THEN json_dimensions(ds.items, <<>>)
                      ELSE Raise("TypeError", <<>>)
             IN  IF r.ok THEN Ok(r.val, <<>>)
                 ELSE IF r.err \in {"JSONDecodeError", "TypeError", "KeyError"}
                 THEN Ok(r.ev, <<>>)
                 ELSE Raise(r.err, <<>>)

RECURSIVE sum_scores(_)
sum_scores(dimensions) ==
    IF dimensions = <<>> THEN 0
    ELSE Head(dimensions).score + sum_scores(Tail(dimensions))

\* re.search(r"OVERALL:\s*([\d.]+)", response): group 1 of the first match,
\* <<>> when nothing matches
overall_match(response) ==
    LET at == {i \in DOMAIN response.lines :
                  /\ response.lines[i].key = "OVERALL"
                  /\ class_prefix(response.lines[i].tok) # <<>>}
    IN  IF at = {} THEN <<>>
        ELSE class_prefix(
                 response.lines[CHOOSE i \in at : \A j \in at : i <= j].tok)

\* _parse_overall, an exact fraction
parse_overall(response, dimensions) ==
    LET group == overall_match(response)
        f == float_of_str(group)
    IN  IF group # <<>> /\ f.ok THEN [num |-> Clamp(f.val), den |-> 100]
        ELSE IF dimensions # <<>>
        THEN [num |-> sum_scores(dimensions), den |-> 100 * Len(dimensions)]
        ELSE [num |-> 0, den |-> 100]

\* a review that calls the backend again when the first call raised
complete_calls_with_retry(raised) == IF raised THEN 2 ELSE 1

\* the number of self._backend.complete calls of one review, the call
\* having raised or not: the call statement stands alone, outside any loop
\* or try block
complete_calls(raised) == 1

\* ReviewEngine.review after the backend returned raw_response (the
\* timestamp field is not modelled)
engine_review(art, spec, backend, raw_response) ==
    LET d == parse_dimensions(raw_response, spec.dimensions)
    IN  IF ~d.ok THEN Raise(d.err, <<>>)
        ELSE Ok([initiative_id |-> art.initiative_id,
                 prompt_name |-> spec.name,
                 prompt_version |-> spec.version,
                 backend_name |-> backend.name,
                 model |-> backend.model,
                 dimensions |-> d.val,
                 overall_score |-> parse_overall(raw_response, d.val),
                 raw_response |-> raw_response], <<>>)

(***************************************************************************)
(* EngineSpec: ReviewEngine.review on a fixed artifact and prompt, with a  *)
(* backend whose completion is any response of a bounded set               *)
(***************************************************************************)
DimNames ==
    <<"internal_validity", "external_validity", "statistical_power",
      "robustness">>

\* what a model may write for a score: 0.8, 0.6, 1.5, -0.2, abc, 1.2.3
ScoreTokens ==
    {<<"0", ".", "8">>, <<"0", ".", "6">>, <<"1", ".", "5">>,
     <<"-", "0", ".", "2">>, <<"a", "b", "c">>,
     <<"1", ".", "2", ".", "3">>}

\* what a model may write as the "score" member of a JSON dimension
\* (Missing: no such member)
JsonScores ==
    {Num(80), Num(150), Num(0 - 20), Str(<<"a", "b", "c">>),
     Str(<<"0", ".", "6">>), Null, [t |-> Missing]}

RECURSIVE text_blocks(_, _)
text_blocks(toks, i) ==
    IF i > Len(toks) THEN <<>>
    ELSE <<Line("DIMENSION", DimNames[i], <<>>),
           Line("SCORE", "", toks[i]),
           Line("JUSTIFICATION", "because", <<>>)>> \o text_blocks(toks, i + 1)

\* blocks with the given score tokens, then (trailer) a closing remark,
\* then (overall # <<>>) an OVERALL line
TextResponse(toks, trailer, overall) ==
    [lines |-> text_blocks(toks, 1)
                   \o (IF trailer THEN <<Line("TEXT", "Thanks.", <<>>)>>
                       ELSE <<>>)
                   \o (IF overall = <<>> THEN <<>>
                       ELSE <<Line("OVERALL", "", overall)>>),
     json |-> NoJson]

TextResponses ==
    {TextResponse(toks, trailer, overall) :
        toks \in UNION {[1..n -> ScoreTokens] : n \in 0..MaxBlocks},
        trailer \in BOOLEAN,
        overall \in ScoreTokens \cup {<<>>}}

JsonDimension(i, score) ==
    Object(IF score.t = Missing
           THEN [m \in {"name", "justification"} |->
                    IF m = "name" THEN DimNames[i] ELSE "because"]
           ELSE [m \in {"name", "score", "justification"} |->
                    IF m = "name" THEN DimNames[i]
                    ELSE IF m = "score" THEN score ELSE "because"])

\* {"dimensions": [...]} with or without an "overall" member
JsonResponse(scores, overall) ==
    LET ds == List([i \in DOMAIN scores |-> JsonDimension(i, scores[i])])
    IN  [lines |-> <<>>,
         json |-> Object(IF overall.t = Missing
                         THEN [m \in {"dimensions"} |-> ds]
                         ELSE [m \in {"dimensions", "overall"} |->
                                  IF m = "dimensions" THEN ds ELSE overall])]

JsonResponses ==
    {JsonResponse(scores, overall) :
        scores \in UNION {[1..n -> JsonScores] : n \in 0..MaxBlocks},
        overall \in {[t |-> Missing], Num(150)}}

\* JSON that is not an object, has no dimensions member, or whose
\* dimensions member or an entry of it is a number
OddJsonResponses ==
    {[lines |-> <<>>, json |-> j] :
        j \in {List(<<>>),
               Object([m \in {"overall"} |-> Num(80)]),
               Object([m \in {"dimensions"} |-> Num(3)]),
               Object([m \in {"dimensions"} |-> List(<<Num(3)>>)])}}

\* a JSON document and DIMENSION blocks in the same string
MixedResponses ==
    {[lines |-> text_blocks(toks, 1),
      json |-> JsonResponse(<<Num(60)>>, [t |-> Missing]).json] :
        toks \in UNION {[1..n -> ScoreTokens] : n \in 1..MaxBlocks}}

Responses ==
    TextResponses \cup JsonResponses \cup OddJsonResponses \cup MixedResponses
        \cup {[lines |-> <<Line("TEXT", "nothing", <<>>)>>, json |-> NoJson]}

SampleArtifact ==
    [initiative_id |-> "init-001", artifact_text |-> <<>>,
     model_type |-> "experiment", sample_size |-> 50]

SampleSpec ==
    [name |-> "study_design_review", version |-> "1.0",
     dimensions |-> SubSeq(DimNames, 1, 3)]

MockBackend == [name |-> "mock", model |-> ""]

EngineInit ==
    /\ fs = EmptyDict /\ fs0 = EmptyDict
    /\ methods = AutoRegistered
    /\ pc = "engine_idle"
    /\ api = UnsetStr /\ config = NoneConfig /\ cost = <<>>
    /\ manifest = Unset /\ strategy = UnsetStr /\ reviewer = UnsetStr
    /\ scorer_event = Unset /\ artifact = SampleArtifact
    /\ confidence = Unset /\ report = Unset
    /\ result = Unset /\ err = NoErr /\ trace = <<>>
    /\ calls = 0 /\ returned = {}
    /\ EngineIdle /\ ScoreIdle /\ LibIdle

\* engine.review(artifact, spec): the backend completes with raw, which is
\* parsed and packaged
EngineReview(raw) ==
    /\ pc = "engine_idle"
    /\ calls < MaxCalls
    /\ backend_response' = raw
    /\ completions' = complete_calls(FALSE)
    /\ LET r == engine_review(artifact, SampleSpec, MockBackend, raw)
       IN  IF r.ok
           THEN result' = r.val /\ err' = NoErr /\ pc' = "engine_done"
           ELSE result' = Unset /\ err' = r.err /\ pc' = "engine_error"
    /\ trace' = <<<<"complete", MockBackend.name>>>>
    /\ UNCHANGED <<fs, methods, args, manifest, strategy, reviewer,
                   scorer_event, artifact, confidence, report, calls,
                   returned, fs0, scoreVars, libVars>>

\* engine.review(artifact, spec): backend.complete raises
BackendRaises ==
    /\ pc = "engine_idle"
    /\ calls < MaxCalls
    /\ backend_response' = Unset
    /\ completions' = complete_calls(TRUE)
    /\ result' = Unset /\ err' = "BackendError" /\ pc' = "engine_error"
    /\ trace' = <<<<"complete", MockBackend.name>>>>
    /\ UNCHANGED <<fs, methods, args, manifest, strategy, reviewer,
                   scorer_event, artifact, confidence, report, calls,
                   returned, fs0, scoreVars, libVars>>

\* the review returns to its caller, or its exception reaches the caller;
\* the engine keeps nothing of the review
EngineReturn ==
    /\ pc \in {"engine_done", "engine_error"}
    /\ pc' = "engine_idle"
    /\ calls' = calls + 1
    /\ backend_response' = Unset /\ completions' = 0
    /\ result' = Unset /\ err' = NoErr /\ trace' = <<>>
    /\ UNCHANGED <<fs, methods, args, locals, returned, fs0, scoreVars, libVars>>

EngineNext ==
    \/ \E raw \in Responses : EngineReview(raw)
    \/ BackendRaises
    \/ EngineReturn

EngineSpec == EngineInit /\ [][EngineNext]_vars

(***************************************************************************)
(* Claims checked under EngineSpec                                         *)
(***************************************************************************)
\* a review has just ended on a backend response
Reviewed ==
    pc \in {"engine_done", "engine_error"} /\ backend_response # Unset

\* the DIMENSION / SCORE / JUSTIFICATION blocks as the model wrote them,
\* whatever the rest of the SCORE line is
RECURSIVE WrittenBlocks(_, _)
WrittenBlocks(lines, i) ==
    IF i + 2 > Len(lines) THEN <<>>
    ELSE IF /\ lines[i].key = "DIMENSION"
            /\ lines[i + 1].key = "SCORE"
            /\ lines[i + 2].key = "JUSTIFICATION"
    THEN LET k == justification_end(lines, i + 2)
         IN  <<[name |-> lines[i].text,
                value |-> float_of_str(lines[i + 1].tok),
                justification |-> justification_text(lines, i + 2, k)]>>
                 \o WrittenBlocks(lines, k + 1)
    ELSE WrittenBlocks(lines, i + 1)

\* the entries of the dimensions array as the model wrote them
WrittenEntries(items) ==
    [i \in DOMAIN items |->
        [name |-> Get(items[i].members, "name", "unknown"),
         value |-> float_of_json(Get(items[i].members, "score", Num(0))),
         justification |->
             <<Line("TEXT", Get(items[i].members, "justification", ""),
                    <<>>)>>]]

\* the response is of the structured-text shape
TextShape(r) == r.json = NoJson /\ WrittenBlocks(r.lines, 1) # <<>>

\* the response is of the JSON shape: an object with an array of objects
JsonShape(r) ==
    /\ r.lines = <<>>
    /\ r.json.t = "object"
    /\ "dimensions" \in DOMAIN r.json.members
    /\ r.json.members["dimensions"].t = "list"
    /\ r.json.members["dimensions"].items # <<>>
    /\ \A i \in DOMAIN r.json.members["dimensions"].items :
           r.json.members["dimensions"].items[i].t = "object"

\* the dimensions the model reported, in either shape
Written(r) ==
    IF TextShape(r) THEN WrittenBlocks(r.lines, 1)
    ELSE WrittenEntries(r.json.members["dimensions"].items)

\* the rest of the first OVERALL line, <<>> if there is none
WrittenOverall(r) ==
    LET at == {i \in DOMAIN r.lines : r.lines[i].key = "OVERALL"}
    IN  IF at = {} THEN <<>>
        ELSE r.lines[CHOOSE i \in at : \A j \in at : i <= j].tok

\* what the claims expect to be stored for the written dimensions
Expected(r) ==
    [i \in DOMAIN Written(r) |->
        ReviewDimension(Written(r)[i].name,
                        IF Written(r)[i].value.ok
                        THEN Clamp(Written(r)[i].value.val) ELSE 0,
                        Written(r)[i].justification)]

\* C9: when every score the model wrote, in the structured-text or in the
\* JSON shape, is a number, the review ends with one stored dimension per
\* written dimension, its score min(1.0, max(0.0, s)) (1.5 stored as 1.0,
\* -0.2 as 0.0); a numeric OVERALL value is stored clamped the same way;
\* and every stored dimension score and overall score lies in [0, 1].
C9_ScoresClamped ==
    LET written == Written(backend_response)
        overall == WrittenOverall(backend_response)
    IN  /\ (/\ Reviewed
            /\ TextShape(backend_response) \/ JsonShape(backend_response)
            /\ \A i \in DOMAIN written : written[i].value.ok)
           => /\ pc = "engine_done"
              /\ result.dimensions = Expected(backend_response)
              /\ (overall # <<>> /\ float_of_str(overall).ok)
                 => result.overall_score.num * 100 =
                        Clamp(float_of_str(overall).val)
                            * result.overall_score.den
        /\ pc = "engine_done"
           => /\ \A i \in DOMAIN result.dimensions :
                     result.dimensions[i].score \in 0..100
              /\ result.overall_score.num >= 0
              /\ result.overall_score.num <= result.overall_score.den

\* C10: when the model wrote a dimension whose score is not a number (the
\* other scores being numbers within [0, 1]), in the structured-text or in
\* the JSON shape, the review still ends without an exception and stores
\* every written dimension in order: the non-numeric one with score 0.0 and
\* its name and justification, the others with their scores.
C10_NonNumericScoreIsZero ==
    LET written == Written(backend_response)
    IN  (/\ Reviewed
         /\ TextShape(backend_response) \/ JsonShape(backend_response)
         /\ \E i \in DOMAIN written : ~written[i].value.ok
         /\ \A i \in DOMAIN written :
                written[i].value.ok => written[i].value.val \in 0..100)
        => /\ pc = "engine_done"
           /\ result.dimensions = Expected(backend_response)

\* the response has no dimension in either shape: no DIMENSION / SCORE /
\* JUSTIFICATION block, and no JSON object with an array of objects
NothingWritten(r) == WrittenBlocks(r.lines, 1) = <<>> /\ ~JsonShape(r)

\* C11: whatever the backend answered, the review ends without an
\* exception; and when the response has no dimension in either shape (JSON
\* that is not an object, has no dimensions array, or whose entries are not
\* objects, included), the result has no dimensions and, without an OVERALL
\* line, overall_score 0.0.
C11_ParsingNeverRaises ==
    Reviewed
    => /\ pc = "engine_done"
       /\ NothingWritten(backend_response)
          => /\ result.dimensions = <<>>
             /\ WrittenOverall(backend_response) = <<>>
                => result.overall_score.num = 0

\* the written blocks whose SCORE is a float, as dimensions
WellFormedBlocks(r) ==
    LET blocks == SelectSeq(WrittenBlocks(r.lines, 1), LAMBDA b : b.value.ok)
    IN  [i \in DOMAIN blocks |->
            ReviewDimension(blocks[i].name, Clamp(blocks[i].value.val),
                            blocks[i].justification)]

\* C12: when the response has a well-formed DIMENSION / SCORE /
\* JUSTIFICATION block, the stored dimensions are exactly the well-formed
\* blocks in order of appearance, whatever JSON the same string holds; when
\* it has no block and is a JSON object with a dimensions array, the stored
\* dimensions are the entries of that array, in order.
C12_TextBeforeJson ==
    LET r == backend_response
    IN  Reviewed
        => /\ WellFormedBlocks(r) # <<>>
              => /\ pc = "engine_done"
                 /\ result.dimensions = WellFormedBlocks(r)
           /\ (WrittenBlocks(r.lines, 1) = <<>> /\ JsonShape(r))
              => /\ pc = "engine_done"
                 /\ [i \in DOMAIN result.dimensions |->
                        result.dimensions[i].name]
                        = [i \in DOMAIN Written(r) |-> Written(r)[i].name]

\* C13: the overall score of a finished review is the clamped value of the
\* OVERALL: <float> line when the response has one; otherwise the mean of
\* the stored dimension scores; otherwise, without dimensions, 0.0.
C13_OverallResolution ==
    LET overall == WrittenOverall(backend_response)
        stored == result.overall_score
    IN  (Reviewed /\ pc = "engine_done")
        => IF overall # <<>> /\ float_of_str(overall).ok
           THEN stored.num * 100 = Clamp(float_of_str(overall).val) * stored.den
           ELSE IF result.dimensions # <<>>
           THEN stored.num * 100 * Len(result.dimensions)
                    = sum_scores(result.dimensions) * stored.den
           ELSE stored.num = 0

(***************************************************************************)
(* ReaderSpec: load_scorer_event called directly on a job directory, as    *)
(* tests/test_job_reader.py does                                           *)
(***************************************************************************)
\* the value impact_results.json holds for a numeric field, when it holds
\* one; sample_size is a count
FileValue(k) ==
    CASE k = "ci_upper" -> 1
      [] k = "effect_estimate" -> Half(0)
      [] k = "ci_lower" -> 0
      [] k = "cost_to_scale" -> 10
      [] k = "sample_size" -> 10

\* impact_results.json with any subset of the numeric fields
ReaderResultsJsons ==
    {[k \in present |-> FileValue(k)] : present \in SUBSET NumericFields}

\* job directories with or without impact_results.json
ReaderJobDirs ==
    {EmptyDict} \cup
    {[f \in {IMPACT_RESULTS_FILENAME} |-> r] : r \in ReaderResultsJsons}

\* overrides: None (the empty dict), or a value for any subset of the fields
OverrideValue == 999
Overrides ==
    {[k \in given |-> OverrideValue] : given \in SUBSET NumericFields}

\* Manifest(model_type="experiment", initiative_id=id)
TestManifest(id) ==
    [schema_version |-> "2.0", model_type |-> "experiment", created_at |-> "",
     files |-> <<>>, initiative_id |-> id,
     evaluate_strategy |-> DefaultStrategy]

ReaderInit ==
    /\ fs \in ReaderJobDirs
    /\ fs0 = fs
    /\ methods = AutoRegistered
    /\ pc = "reader_idle"
    /\ api = UnsetStr /\ config = NoneConfig /\ cost = <<>>
    /\ manifest \in {TestManifest(""), TestManifest("init-override")}
    /\ strategy = UnsetStr /\ reviewer = UnsetStr
    /\ scorer_event = Unset /\ artifact = Unset
    /\ confidence = Unset /\ report = Unset
    /\ result = Unset /\ err = NoErr /\ trace = <<>>
    /\ calls = 0 /\ returned = {}
    /\ EngineIdle /\ ScoreIdle /\ LibIdle

\* event = load_scorer_event(manifest, job_dir, overrides=o)
ReaderCall(o) ==
    /\ pc = "reader_idle"
    /\ calls < MaxCalls
    /\ caller_overrides' = o
    /\ LET r == load_scorer_event(manifest, fs, o)
       IN  /\ trace' = r.ev
           /\ IF r.ok
              THEN scorer_event' = r.val /\ err' = NoErr /\ pc' = "reader_done"
              ELSE scorer_event' = Unset /\ err' = r.err
                   /\ pc' = "reader_error"
    /\ UNCHANGED <<fs, methods, args, manifest, strategy, reviewer, artifact,
                   confidence, report, result, calls, returned, fs0,
                   engineVars, scoreVars, registryVars>>

\* the event, or the exception, reaches the caller
ReaderReturn ==
    /\ pc \in {"reader_done", "reader_error"}
    /\ pc' = "reader_idle"
    /\ calls' = calls + 1
    /\ caller_overrides' = Unset /\ scorer_event' = Unset
    /\ err' = NoErr /\ trace' = <<>>
    /\ UNCHANGED <<fs, methods, args, manifest, strategy, reviewer, artifact,
                   confidence, report, result, returned, fs0, engineVars,
                   scoreVars, registryVars>>

ReaderNext ==
    \/ \E o \in Overrides : ReaderCall(o)
    \/ ReaderReturn

ReaderSpec == ReaderInit /\ [][ReaderNext]_vars

NameOrder ==
    <<"_test_mock", "_test_mock_method", "anthropic", "custom_kb",
      "experiment", "experiment_review", "litellm", "no_such_kb_xyz",
      "no_such_prompt_xyz", "nonexistent_backend_xyz",
      "nonexistent_method_xyz", "openai", "overwrite_test",
      "quasi_experimental", "quasi_experimental_review">>

\* sorted(names)
sorted(names) == SelectSeq(NameOrder, LAMBDA n : n \in names)

\* a listing that names one registered name only
available_first_only(names) ==
    IF names = {} THEN <<"(none)">> ELSE <<sorted(names)[1]>>

\* ", ".join(sorted(names)) or "(none)", as the sequence of the names joined
available(names) ==
    IF names = {} THEN <<"(none)">> ELSE sorted(names)

\* a KeyError with its message: the text before the name, the name, and the
\* listing after "Available:"
LookupError(text, name, names) ==
    [ok |-> FALSE, err |-> "KeyError",
     msg |-> [text |-> text, name |-> name, available |-> available(names)]]

\* registry[name] = path
SetItem(registry, name, path) ==
    [n \in DOMAIN registry \cup {name} |->
        IF n = name THEN path ELSE registry[n]]

\* the prompt files of the built-in methods, by path
BuiltinPromptFiles ==
    [p \in {"methods/experiment/templates/experiment_review.yaml",
            "methods/quasi_experimental/templates/quasi_experimental_review.yaml"} |->
        [name |-> IF p = "methods/experiment/templates/experiment_review.yaml"
                  THEN "experiment_review"
                  ELSE "quasi_experimental_review",
         version |-> "1.0"]]

\* the prompt files a test wrote, by path: the YAML mapping of each
TestPromptFiles ==
    [p \in {"a.yaml", "b.yaml"} |->
        [name |-> IF p = "a.yaml" THEN "version_a" ELSE "version_b",
         version |-> "1.0", description |-> "", dimensions |-> <<>>,
         system |-> "", user |-> ""]]

PromptFiles ==
    [p \in DOMAIN BuiltinPromptFiles \cup DOMAIN TestPromptFiles |->
        IF p \in DOMAIN TestPromptFiles THEN TestPromptFiles[p]
        ELSE BuiltinPromptFiles[p]]

\* engine.load_prompt_spec(path)
load_prompt_spec(path) ==
    IF path \notin DOMAIN PromptFiles
    THEN Raise("FileNotFoundError", <<<<"exists", path>>>>)
    ELSE LET data == PromptFiles[path]
         IN  Ok([name |-> Get(data, "name", "unknown"),
                 version |-> Get(data, "version", "0.0"),
                 description |-> Get(data, "description", ""),
                 dimensions |-> Get(data, "dimensions", <<>>),
                 system_template |-> Get(data, "system", ""),
                 user_template |-> Get(data, "user", "")],
                <<<<"exists", path>>, <<"read", path>>>>)

\* prompt_registry._ensure_defaults_loaded: the registry after the call
prompt_ensure_defaults_loaded(registry, loaded) ==
    IF loaded THEN registry
    ELSE SetItem(SetItem(registry, "experiment_review",
                         "methods/experiment/templates/experiment_review.yaml"),
                 "quasi_experimental_review",
                 "methods/quasi_experimental/templates/quasi_experimental_review.yaml")

register_prompt(registry, name, path) == SetItem(registry, name, path)

load_prompt(registry, loaded, name) ==
    LET reg == prompt_ensure_defaults_loaded(registry, loaded)
    IN  IF name \notin DOMAIN reg
        THEN LookupError("Prompt not registered", name, DOMAIN reg)
        ELSE load_prompt_spec(reg[name])

\* list_prompts without the built-in defaults
list_prompts_registered_only(registry, loaded) == sorted(DOMAIN registry)

list_prompts(registry, loaded) ==
    sorted(DOMAIN prompt_ensure_defaults_loaded(registry, loaded))

\* a file name of a knowledge directory
File(stem, suffix) == [stem |-> stem, suffix |-> suffix]

\* the file names of the model in the order of Python's comparison of their
\* paths within one directory
FileOrder ==
    <<File("a_notes", ".txt"), File("b_notes", ".md"), File("data", ".json"),
      File("design", ".md")>>

\* the knowledge directories, by path: the text of each of their files
BuiltinKnowledgeDirs ==
    [d \in {"methods/experiment/knowledge",
            "methods/quasi_experimental/knowledge"} |->
        [f \in {File("design", ".md")} |-> d]]

TestKnowledgeDirs ==
    [d \in {"my_kb", "no_text_kb"} |->
        [f \in IF d = "my_kb"
               THEN {File("b_notes", ".md"), File("a_notes", ".txt"),
                     File("data", ".json")}
               ELSE {File("data", ".json")} |->
            CASE f.suffix = ".md" -> "# Custom knowledge"
              [] f.suffix = ".txt" -> "plain notes"
              [] OTHER -> "{}"]]

KnowledgeDirs ==
    [d \in DOMAIN BuiltinKnowledgeDirs \cup DOMAIN TestKnowledgeDirs |->
        IF d \in DOMAIN TestKnowledgeDirs THEN TestKnowledgeDirs[d]
        ELSE BuiltinKnowledgeDirs[d]]

\* sorted(directory.glob(ext)) for ext = "*" + suffix
sorted_glob(directory, suffix) ==
    SelectSeq(FileOrder, LAMBDA f : /\ f \in DOMAIN KnowledgeDirs[directory]
                                    /\ f.suffix = suffix)

\* the divider between two knowledge files
SectionDivider == "\n\n---\n\n"

\* sep.join(parts), as the sequence of the parts and the separators
RECURSIVE join(_, _)
join(sep, parts) ==
    IF Len(parts) <= 1 THEN parts
    ELSE <<Head(parts), sep>> \o join(sep, Tail(parts))

\* engine.load_knowledge(directory): the text returned, "" being <<>>
load_knowledge(directory) ==
    IF directory \notin DOMAIN KnowledgeDirs THEN <<>>
    ELSE LET parts(suffix) ==
                 [i \in DOMAIN sorted_glob(directory, suffix) |->
                     KnowledgeDirs[directory][sorted_glob(directory, suffix)[i]]]
         IN  join(SectionDivider, parts(".md") \o parts(".txt"))

\* knowledge_registry._ensure_defaults_loaded: the registry after the call
knowledge_ensure_defaults_loaded(registry, loaded) ==
    IF loaded THEN registry
    ELSE SetItem(SetItem(registry, "experiment",
                         "methods/experiment/knowledge"),
                 "quasi_experimental", "methods/quasi_experimental/knowledge")

register_knowledge_base(registry, name, directory) ==
    SetItem(registry, name, directory)

load_knowledge_base(registry, loaded, name) ==
    LET reg == knowledge_ensure_defaults_loaded(registry, loaded)
    IN  IF name \notin DOMAIN reg
        THEN LookupError("Knowledge base not registered", name, DOMAIN reg)
        ELSE Ok(load_knowledge(reg[name]), <<<<"is_dir", reg[name]>>>>)

list_knowledge_bases(registry, loaded) ==
    sorted(DOMAIN knowledge_ensure_defaults_loaded(registry, loaded))

\* BackendRegistry.create(name) for a registered mock class or no class
backend_create(name) ==
    IF name \notin backends
    THEN LookupError("Unknown backend", name, backends)
    ELSE Ok(name, <<>>)

\* MethodReviewerRegistry.create(name), with the message of its KeyError
method_create(name) ==
    IF create(name).ok THEN create(name)
    ELSE LookupError("Unknown method", name, methods)

(***************************************************************************)
(* RegistrySpec: a process calls the registry functions in any order, as   *)
(* tests/test_prompt_registry.py, tests/test_knowledge_registry.py,        *)
(* tests/test_backends.py and tests/test_method_registry.py do             *)
(***************************************************************************)
PromptNames == {"experiment_review", "overwrite_test", "no_such_prompt_xyz"}
PromptPaths == DOMAIN TestPromptFiles
KnowledgeNames == {"experiment", "custom_kb", "no_such_kb_xyz"}
KnowledgePaths == DOMAIN TestKnowledgeDirs \cup {"missing_kb"}
BackendNames == {"_test_mock", "nonexistent_backend_xyz"}
MethodNames == {"_test_mock_method", "nonexistent_method_xyz"}

\* the record of a registry call: which registry, which function, the name
\* passed, and what came back
Called(registry, op, name, out) ==
    [registry |-> registry, op |-> op, name |-> name, out |-> out]

RegistryInit ==
    /\ fs = EmptyDict /\ fs0 = EmptyDict
    /\ methods \in {{}, AutoRegistered}
    /\ pc = "registry"
    /\ api = UnsetStr /\ config = NoneConfig /\ cost = <<>>
    /\ manifest = Unset /\ strategy = UnsetStr /\ reviewer = UnsetStr
    /\ scorer_event = Unset /\ artifact = Unset
    /\ confidence = Unset /\ report = Unset
    /\ result = Unset /\ err = NoErr /\ trace = <<>>
    /\ calls = 0 /\ returned = {}
    /\ EngineIdle /\ ScoreIdle /\ LibIdle

pipeButMethods ==
    <<fs, pc, args, locals, result, err, trace, calls, returned, fs0>>
promptVars == <<prompt_registry, prompt_defaults_loaded>>
knowledgeVars == <<knowledge_registry, knowledge_defaults_loaded>>

\* register_prompt(name, path)
RegisterPrompt(name, path) ==
    /\ pc = "registry"
    /\ prompt_registry' = register_prompt(prompt_registry, name, path)
    /\ latest' = [latest EXCEPT !.prompts = SetItem(@, name, path)]
    /\ reg_out' = Called("prompts", "register", name, Ok(path, <<>>))
    /\ UNCHANGED <<pipeButMethods, methods, engineVars, scoreVars, readerVars,
                   prompt_defaults_loaded, knowledgeVars, backends>>

\* load_prompt(name)
LoadPrompt(name) ==
    /\ pc = "registry"
    /\ prompt_registry' =
           prompt_ensure_defaults_loaded(prompt_registry, prompt_defaults_loaded)
    /\ prompt_defaults_loaded' = TRUE
    /\ reg_out' = Called("prompts", "load", name,
                         load_prompt(prompt_registry, prompt_defaults_loaded,
                                     name))
    /\ UNCHANGED <<pipeButMethods, methods, engineVars, scoreVars, readerVars,
                   knowledgeVars, backends, latest>>

\* list_prompts()
ListPrompts ==
    /\ pc = "registry"
    /\ prompt_registry' =
           prompt_ensure_defaults_loaded(prompt_registry, prompt_defaults_loaded)
    /\ prompt_defaults_loaded' = TRUE
    /\ reg_out' = Called("prompts", "list", "",
                         Ok(list_prompts(prompt_registry,
                                         prompt_defaults_loaded), <<>>))
    /\ UNCHANGED <<pipeButMethods, methods, engineVars, scoreVars, readerVars,
                   knowledgeVars, backends, latest>>

\* clear_prompt_registry()
ClearPromptRegistry ==
    /\ pc = "registry"
    /\ prompt_registry' = EmptyDict
    /\ prompt_defaults_loaded' = FALSE
    /\ latest' = [latest EXCEPT !.prompts = EmptyDict]
    /\ reg_out' = Called("prompts", "clear", "", Ok("", <<>>))
    /\ UNCHANGED <<pipeButMethods, methods, engineVars, scoreVars, readerVars,
                   knowledgeVars, backends>>

\* register_knowledge_base(name, directory)
RegisterKnowledgeBase(name, directory) ==
    /\ pc = "registry"
    /\ knowledge_registry' =
           register_knowledge_base(knowledge_registry, name, directory)
    /\ latest' = [latest EXCEPT !.knowledge = SetItem(@, name, directory)]
    /\ reg_out' = Called("knowledge", "register", name, Ok(directory, <<>>))
    /\ UNCHANGED <<pipeButMethods, methods, engineVars, scoreVars, readerVars,
                   knowledge_defaults_loaded, promptVars, backends>>

\* load_knowledge_base(name)
LoadKnowledgeBase(name) ==
    /\ pc = "registry"
    /\ knowledge_registry' =
           knowledge_ensure_defaults_loaded(knowledge_registry,
                                            knowledge_defaults_loaded)
    /\ knowledge_defaults_loaded' = TRUE
    /\ reg_out' = Called("knowledge", "load", name,
                         load_knowledge_base(knowledge_registry,
                                             knowledge_defaults_loaded, name))
    /\ UNCHANGED <<pipeButMethods, methods, engineVars, scoreVars, readerVars,
                   promptVars, backends, latest>>

\* list_knowledge_bases()
ListKnowledgeBases ==
    /\ pc = "registry"
    /\ knowledge_registry' =
           knowledge_ensure_defaults_loaded(knowledge_registry,
                                            knowledge_defaults_loaded)
    /\ knowledge_defaults_loaded' = TRUE
    /\ reg_out' = Called("knowledge", "list", "",
                         Ok(list_knowledge_bases(knowledge_registry,
                                                 knowledge_defaults_loaded),
                            <<>>))
    /\ UNCHANGED <<pipeButMethods, methods, engineVars, scoreVars, readerVars,
                   promptVars, backends, latest>>

\* clear_knowledge_registry()
ClearKnowledgeRegistry ==
    /\ pc = "registry"
    /\ knowledge_registry' = EmptyDict
    /\ knowledge_defaults_loaded' = FALSE
    /\ latest' = [latest EXCEPT !.knowledge = EmptyDict]
    /\ reg_out' = Called("knowledge", "clear", "", Ok("", <<>>))
    /\ UNCHANGED <<pipeButMethods, methods, engineVars, scoreVars, readerVars,
                   promptVars, backends>>

\* BackendRegistry.register(name)(klass)
RegisterBackend(name) ==
    /\ pc = "registry"
    /\ backends' = backends \cup {name}
    /\ reg_out' = Called("backends", "register", name, Ok(name, <<>>))
    /\ UNCHANGED <<pipeButMethods, methods, engineVars, scoreVars, readerVars,
                   promptVars, knowledgeVars, latest>>

\* BackendRegistry.create(name)
CreateBackend(name) ==
    /\ pc = "registry"
    /\ reg_out' = Called("backends", "create", name, backend_create(name))
    /\ UNCHANGED <<pipeButMethods, methods, engineVars, scoreVars, readerVars,
                   promptVars, knowledgeVars, backends, latest>>

\* MethodReviewerRegistry.register(name)(klass)
RegisterMethod(name) ==
    /\ pc = "registry"
    /\ methods' = methods \cup {name}
    /\ reg_out' = Called("methods", "register", name, Ok(name, <<>>))
    /\ UNCHANGED <<pipeButMethods, engineVars, scoreVars, readerVars,
                   promptVars, knowledgeVars, backends, latest>>

\* MethodReviewerRegistry.create(name)
CreateMethod(name) ==
    /\ pc = "registry"
    /\ reg_out' = Called("methods", "create", name, method_create(name))
    /\ UNCHANGED <<pipeButMethods, methods, engineVars, scoreVars, readerVars,
                   promptVars, knowledgeVars, backends, latest>>

RegistryNext ==
    \/ \E name \in PromptNames \ {"no_such_prompt_xyz"}, path \in PromptPaths :
           RegisterPrompt(name, path)
    \/ \E name \in PromptNames : LoadPrompt(name)
    \/ ListPrompts
    \/ ClearPromptRegistry
    \/ \E name \in KnowledgeNames \ {"no_such_kb_xyz"},
          directory \in KnowledgePaths : RegisterKnowledgeBase(name, directory)
    \/ \E name \in KnowledgeNames : LoadKnowledgeBase(name)
    \/ ListKnowledgeBases
    \/ ClearKnowledgeRegistry
    \/ RegisterBackend("_test_mock")
    \/ \E name \in BackendNames : CreateBackend(name)
    \/ RegisterMethod("_test_mock_method")
    \/ \E name \in MethodNames : CreateMethod(name)

RegistrySpec == RegistryInit /\ [][RegistryNext]_vars

(***************************************************************************)
(* Claims checked under RegistrySpec                                       *)
(***************************************************************************)
\* the names the registry of the last call holds
RegisteredNow ==
    CASE reg_out.registry = "prompts" -> DOMAIN prompt_registry
      [] reg_out.registry = "knowledge" -> DOMAIN knowledge_registry
      [] reg_out.registry = "backends" -> backends
      [] reg_out.registry = "methods" -> methods

\* the position of a name in Python's str order
Rank(name) == CHOOSE i \in DOMAIN NameOrder : NameOrder[i] = name

\* the listing names each of the names once, and nothing else
ListsExactly(listing, names) ==
    IF names = {} THEN listing = <<"(none)">>
    ELSE Range(listing) = names /\ Len(listing) = Cardinality(names)

\* the last call looked a name up
LookedUp == reg_out # Unset /\ reg_out.op \in {"load", "create"}

\* C16: in each of the four registries, looking up a name that is not
\* registered raises a KeyError whose message lists exactly the names
\* registered at that moment, and a lookup never answers for a name that
\* is not registered.
C16_UnknownNameListsRegistered ==
    LookedUp
    => /\ reg_out.name \notin RegisteredNow
          => /\ ~reg_out.out.ok
             /\ reg_out.out.err = "KeyError"
             /\ reg_out.out.msg.name = reg_out.name
             /\ ListsExactly(reg_out.out.msg.available, RegisteredNow)
       /\ reg_out.name \in RegisteredNow
          => (reg_out.out.ok \/ reg_out.out.err # "KeyError")

\* a lookup of an unknown prompt after a custom registration, whose
\* message lists the two built-in names and the custom one
C16_Witness ==
    /\ LookedUp
    /\ reg_out.registry = "prompts"
    /\ reg_out.name = "no_such_prompt_xyz"
    /\ ~reg_out.out.ok
    /\ reg_out.out.msg.available =
           <<"experiment_review", "overwrite_test",
             "quasi_experimental_review">>

\* the path registry of the last call, its history and its loader's result
\* for a path
LatestNow ==
    IF reg_out.registry = "prompts" THEN latest.prompts ELSE latest.knowledge

LoadedFrom(path) ==
    IF reg_out.registry = "prompts" THEN load_prompt_spec(path).val
    ELSE load_knowledge(path)

\* C17: in the prompt registry and in the knowledge registry, a load of a
\* name that was registered since the last clear returns what the path most
\* recently registered under that name holds, for built-in names too and
\* whether the registration came before or after the first access.
C17_LatestRegistrationLoaded ==
    (/\ reg_out # Unset
     /\ reg_out.registry \in {"prompts", "knowledge"}
     /\ reg_out.op = "load"
     /\ reg_out.name \in DOMAIN LatestNow)
    => /\ reg_out.out.ok
       /\ reg_out.out.val = LoadedFrom(LatestNow[reg_out.name])

\* the outcome of the last call is a sorted listing
IsSorted(listing) ==
    \A i, j \in DOMAIN listing : i < j => Rank(listing[i]) < Rank(listing[j])

BuiltinNames ==
    IF reg_out.registry = "prompts"
    THEN {"experiment_review", "quasi_experimental_review"}
    ELSE {"experiment", "quasi_experimental"}

\* C18: list_prompts() and list_knowledge_bases() return a sorted list of
\* the two built-in names and every name registered since the last clear,
\* and nothing else; a clear leaves the registry empty with its defaults
\* to be loaded again on the next access.
C18_ListSortedDefaultsAndCustom ==
    (reg_out # Unset /\ reg_out.registry \in {"prompts", "knowledge"})
    => /\ reg_out.op = "list"
          => /\ IsSorted(reg_out.out.val)
             /\ Range(reg_out.out.val) = BuiltinNames \cup DOMAIN LatestNow
             /\ Len(reg_out.out.val) = Cardinality(Range(reg_out.out.val))
       /\ reg_out.op = "clear"
          => /\ RegisteredNow = {}
             /\ reg_out.registry = "prompts" => ~prompt_defaults_loaded
             /\ reg_out.registry = "knowledge" => ~knowledge_defaults_loaded

\* a listing with a custom name between the two built-in ones
C18_Witness ==
    /\ reg_out # Unset
    /\ reg_out.registry = "prompts"
    /\ reg_out.op = "list"
    /\ reg_out.out.val = <<"experiment_review", "overwrite_test",
                           "quasi_experimental_review">>

(***************************************************************************)
(* Claims checked under Spec on the review entry points and the registries *)
(***************************************************************************)
\* the prompt name the config of the running call sets for the manifest's
\* method, "" when it sets none
ConfiguredPrompt ==
    Get(Get(load_config(config).methods, manifest.model_type,
            [prompt |-> ""]), "prompt", "")

\* a review call whose manifest, reviewer and artifact loaded has ended
ReviewInputsLoaded ==
    /\ api \in ReviewApis
    /\ pc \in {"done", "error"}
    /\ manifest # Unset
    /\ artifact # Unset

\* C19: a review whose config names a prompt for the manifest's method
\* takes the prompt from the registry: with a registered name the review
\* runs on the prompt registered under it, and with a name that is not
\* registered it ends with a Lookup error (KeyError).
C19_ConfiguredNameFromRegistry ==
    (ReviewInputsLoaded /\ ConfiguredPrompt # "")
    => LET looked == load_prompt(prompt_registry, prompt_defaults_loaded,
                                 ConfiguredPrompt)
       IN  IF looked.ok
           THEN pc = "done" /\ result.prompt_name = looked.val.name
           ELSE pc = "error" /\ err = "KeyError"

\* C20: compute_review writes nothing; a review whose inputs loaded returns
\* the ReviewResult and has written it to review_result.json, and a review
\* that raised has not written the file.
C20_ReviewWritesAfterCompute ==
    /\ (api = "compute_review" /\ pc \in RvPcs \cup {"done", "error"})
       => "write" \notin Kinds
    /\ (api = "review" /\ pc = "error")
       => <<"write", REVIEW_RESULT_FILENAME>> \notin Range(trace)
    /\ (ReviewInputsLoaded /\ api = "review")
       => /\ pc = "done"
          /\ <<"write", REVIEW_RESULT_FILENAME>> \in Range(trace)
          /\ fs[REVIEW_RESULT_FILENAME] = result

\* the running call has tried to load manifest.json
ManifestLoadTried ==
    /\ pc \notin {"idle", "load", "rv_config"}
    /\ <<"exists", MANIFEST_FILENAME>> \in Range(trace)

\* C21: loading the manifest fails with FileNotFoundError when manifest.json
\* is absent and with ValueError when model_type is missing; a manifest that
\* has model_type loads, whichever of schema_version, created_at,
\* initiative_id and evaluate_strategy it omits; and the review of a loaded
\* manifest whose model_type is not registered ends with KeyError.
C21_OnlyModelTypeRequired ==
    ManifestLoadTried
    => /\ MANIFEST_FILENAME \notin DOMAIN fs
          => pc = "error" /\ err = "FileNotFoundError"
       /\ (/\ MANIFEST_FILENAME \in DOMAIN fs
           /\ "model_type" \notin DOMAIN fs[MANIFEST_FILENAME])
          => pc = "error" /\ err = "ValueError"
       /\ (/\ MANIFEST_FILENAME \in DOMAIN fs
           /\ "model_type" \in DOMAIN fs[MANIFEST_FILENAME])
          => /\ manifest # Unset
             /\ (/\ api \in ReviewApis
                 /\ pc \in {"done", "error"}
                 /\ manifest.model_type \notin methods)
                => err = "KeyError"

\* the running call is in review(), or has ended there or before it on the
\* review strategy
OnReviewPath ==
    \/ pc \in RvPcs
    \/ pc \in {"done", "error"} /\ api \in ReviewApis
    \/ /\ pc \in {"done", "error"} /\ api \in EvalApis
       /\ strategy = "review" /\ scorer_event # Unset

\* C22: a manifest without file entries loads; on the review path the
\* artifact loader then raises ValueError, so the review never gets past
\* it, and it ends with no backend call made and no file written by the
\* call.
C22_EmptyManifestFailsAtArtifact ==
    (/\ manifest # Unset
     /\ manifest.files = <<>>
     /\ OnReviewPath)
    => /\ pc \notin {"rv_method", "done"}
       /\ artifact = Unset
       /\ completions = 0
       /\ "write" \notin Kinds
       /\ (pc = "error" /\ manifest.model_type \in methods)
          => err = "ValueError"

C22_Witness ==
    /\ api \in ReviewApis
    /\ pc = "error"
    /\ err = "ValueError"
    /\ manifest # Unset
    /\ manifest.files = <<>>
    /\ manifest.model_type \in methods
    /\ <<"lookup", manifest.model_type>> \in Range(trace)

(***************************************************************************)
(* ConfigSpec: BackendConfig constructed and load_config called directly,  *)
(* as tests/test_config.py does                                            *)
(***************************************************************************)
\* values of the backend fields
BackendModels == {"", "gpt-4o"}
BackendTemperatures == {0 - 10, 0, 50}
BackendMaxTokens == {0 - 1, 0, 1024}

\* the backend section, or the keyword arguments, with the fields of given
BackendFields(given, model, temperature, max_tokens) ==
    [k \in given |->
        CASE k = "model" -> model
          [] k = "temperature" -> temperature
          [] k = "max_tokens" -> max_tokens]

BackendSections ==
    UNION {{BackendFields(given, model, temperature, max_tokens) :
               model \in BackendModels, temperature \in BackendTemperatures,
               max_tokens \in BackendMaxTokens} :
           given \in SUBSET {"model", "temperature", "max_tokens"}}

ConfigInit ==
    /\ fs = EmptyDict /\ fs0 = EmptyDict
    /\ methods = AutoRegistered
    /\ pc = "config_idle"
    /\ api = UnsetStr /\ config = NoneConfig /\ cost = <<>>
    /\ manifest = Unset /\ strategy = UnsetStr /\ reviewer = UnsetStr
    /\ scorer_event = Unset /\ artifact = Unset
    /\ confidence = Unset /\ report = Unset
    /\ result = Unset /\ err = NoErr /\ trace = <<>>
    /\ calls = 0 /\ returned = {}
    /\ EngineIdle /\ ScoreIdle /\ LibIdle

\* config = load_config(source)
LoadConfigCall(source) ==
    /\ pc = "config_idle"
    /\ calls < MaxCalls
    /\ api' = "load_config"
    /\ config' = source
    /\ result' = load_config(source).backend
    /\ pc' = "config_done"
    /\ UNCHANGED <<fs, methods, cost, locals, err, trace, calls, returned, fs0,
                   otherVars>>

\* bc = BackendConfig(**kwargs), the defaults for what is not given
ConstructBackendConfig(kwargs) ==
    /\ pc = "config_idle"
    /\ calls < MaxCalls
    /\ api' = "BackendConfig"
    /\ config' = DictConfig([backend |-> kwargs])
    /\ result' = BackendConfig(
                     Get(kwargs, "model", "claude-sonnet-4-5-20250929"),
                     Get(kwargs, "temperature", 0),
                     Get(kwargs, "max_tokens", 4096), EmptyDict)
    /\ pc' = "config_done"
    /\ UNCHANGED <<fs, methods, cost, locals, err, trace, calls, returned, fs0,
                   otherVars>>

\* the config reaches the caller
ConfigReturn ==
    /\ pc = "config_done"
    /\ pc' = "config_idle"
    /\ calls' = calls + 1
    /\ api' = UnsetStr /\ config' = NoneConfig /\ result' = Unset
    /\ UNCHANGED <<fs, methods, cost, locals, err, trace, returned, fs0,
                   otherVars>>

ConfigNext ==
    \/ \E source \in {NoneConfig} \cup
                     {DictConfig([backend |-> b]) : b \in BackendSections} :
           LoadConfigCall(source)
    \/ \E kwargs \in BackendSections : ConstructBackendConfig(kwargs)
    \/ ConfigReturn

ConfigSpec == ConfigInit /\ [][ConfigNext]_vars

(***************************************************************************)
(* Claims checked under ConfigSpec                                         *)
(***************************************************************************)
\* the backend fields the call was given
GivenBackend ==
    IF config.kind = "dict" THEN Get(config.raw, "backend", EmptyDict)
    ELSE EmptyDict

\* C23: no BackendConfig comes into being, by construction or by
\* load_config, with an empty model, a temperature below 0 or a max_tokens
\* that is not greater than 0: such a call raises ValueError; a call with
\* valid fields (temperature 0.0 and the defaults included) returns them.
C23_BackendConfigValidated ==
    (pc \in {"config_done", "config_error"})
    => IF \/ Get(GivenBackend, "model", "default") = ""
          \/ Get(GivenBackend, "temperature", 0) < 0
          \/ Get(GivenBackend, "max_tokens", 4096) <= 0
       THEN pc = "config_error" /\ err = "ValueError"
       ELSE /\ pc = "config_done"
            /\ result.temperature = Get(GivenBackend, "temperature", 0)
            /\ result.max_tokens = Get(GivenBackend, "max_tokens", 4096)

KnowledgeLoaded ==
    /\ reg_out # Unset
    /\ reg_out.registry = "knowledge" /\ reg_out.op = "load"
    /\ reg_out.out.ok

LoadedDirectory == knowledge_registry[reg_out.name]

\* the texts of the .md and .txt files of a directory in the order of their
\* file names, none for a path that is no directory
TextsByFilename(directory) ==
    IF directory \notin DOMAIN KnowledgeDirs THEN <<>>
    ELSE LET files == SelectSeq(FileOrder,
                          LAMBDA f : /\ f \in DOMAIN KnowledgeDirs[directory]
                                     /\ f.suffix \in {".md", ".txt"})
         IN  [i \in DOMAIN files |-> KnowledgeDirs[directory][files[i]]]

\* C25: load_knowledge on a directory returns the texts of all its .md and
\* .txt files in the order of their file names, joined by the section
\* divider, and the empty string for a missing directory or one without such
\* files.
C25_KnowledgeByFilename ==
    KnowledgeLoaded
    => reg_out.out.val = join(SectionDivider, TextsByFilename(LoadedDirectory))

(***************************************************************************)
(* Claims checked under Spec on the built-in reviewers, the result files   *)
(* and the score path                                                      *)
(***************************************************************************)
\* C26: with the package imported and no registration asked for, create
\* succeeds for "experiment" (range 0.85..1.0) and for "quasi_experimental"
\* (range 0.60..0.85), and every registered reviewer has a confidence_range
\* with lo <= hi other than (0.0, 0.0).
C26_BuiltinsSelfRegister ==
    /\ create("experiment").ok
    /\ confidence_range("experiment") = <<85, 100>>
    /\ create("quasi_experimental").ok
    /\ confidence_range("quasi_experimental") = <<60, 85>>
    /\ \A name \in methods :
           /\ confidence_range(name)[1] <= confidence_range(name)[2]
           /\ confidence_range(name) # <<0, 0>>

\* the three result files of a job directory
ResultFiles ==
    {SCORE_RESULT_FILENAME, REVIEW_RESULT_FILENAME, EVALUATE_RESULT_FILENAME}

\* the result files of two states of the job directory are the same
SameResultFiles(a, b) ==
    \A f \in ResultFiles :
        /\ f \in DOMAIN a <=> f \in DOMAIN b
        /\ f \in DOMAIN a => a[f] = b[f]

\* C27: an evaluation that raises has written nothing: the call has made no
\* write, and (for the first call on the job directory) each of
\* score_result.json, review_result.json and evaluate_result.json is absent
\* or holds what it held before the call.
C27_NoPartialOutput ==
    (api \in EvalApis /\ pc = "error")
    => /\ "write" \notin Kinds
       /\ calls = 0 => SameResultFiles(fs, fs0)

C27_Witness ==
    /\ api \in EvalApis
    /\ pc = "error"
    /\ strategy = "score"
    /\ "read" \in Kinds

\* the result file of a strategy, and the key of the score it stores
StrategyFile(s) ==
    IF s = "score" THEN SCORE_RESULT_FILENAME ELSE REVIEW_RESULT_FILENAME

StrategyScoreKey(s) == IF s = "score" THEN "confidence" ELSE "overall_score"

\* C28: once a run has written evaluate_result.json, it wrote the result
\* file of its strategy at an earlier step, that file exists, and the
\* confidence of evaluate_result.json is the confidence (score) or the
\* overall_score (review) stored in it, with the same initiative_id.
C28_StrategyFileWrittenFirst ==
    (<<"write", EVALUATE_RESULT_FILENAME>> \in Range(trace))
    => LET ev == fs[EVALUATE_RESULT_FILENAME]
           sf == StrategyFile(ev.strategy)
       IN  /\ \E i, j \in DOMAIN trace :
                  /\ i < j
                  /\ trace[i] = <<"write", sf>>
                  /\ trace[j] = <<"write", EVALUATE_RESULT_FILENAME>>
           /\ sf \in DOMAIN fs
           /\ fs[sf][StrategyScoreKey(ev.strategy)] = ev.confidence
           /\ fs[sf].initiative_id = ev.initiative_id

C28_Witness ==
    /\ pc = "done"
    /\ trace[Len(trace)] = <<"write", EVALUATE_RESULT_FILENAME>>
    /\ SCORE_RESULT_FILENAME \in DOMAIN fs
    /\ fs[SCORE_RESULT_FILENAME].confidence
           = fs[EVALUATE_RESULT_FILENAME].confidence

\* the running evaluation loaded a manifest.json without evaluate_strategy
\* whose model_type has a registered reviewer
OmitsStrategy ==
    /\ api \in EvalApis
    /\ manifest # Unset
    /\ "evaluate_strategy" \notin DOMAIN fs[MANIFEST_FILENAME]
    /\ manifest.model_type \in methods

\* C29: the strategy a manifest gets when it omits evaluate_strategy is one
\* the router knows, so an evaluation of such a manifest with a registered
\* model_type is never rejected by the router for its strategy.
C29_DefaultStrategyIsKnown ==
    OmitsStrategy
    => /\ manifest.evaluate_strategy \in KNOWN_STRATEGIES
       /\ ~(pc = "error" /\ err = "ValueError" /\ strategy = UnsetStr)

\* the results returned by evaluations on the score strategy
Scored == {r \in returned : r.strategy = "score"}

\* C30: what a scored evaluation returns is fixed by its resolved
\* initiative_id and its reviewer's confidence_range: confidence and report
\* are the draw and the text for these two values, whatever
\* impact_results.json holds and whatever cost_to_scale and config the caller
\* passed, and two scored evaluations that agree on the two values return
\* the same confidence and report.
C30_ScoreNoninterference ==
    /\ \A r \in Scored :
           /\ r.confidence = uniform(stable_seed(r.initiative_id),
                                     r.confidence_range[1],
                                     r.confidence_range[2])
           /\ r.report = score_report(r.confidence_range)
    /\ \A r1, r2 \in Scored :
           (/\ r1.initiative_id = r2.initiative_id
            /\ r1.confidence_range = r2.confidence_range)
           => r1.confidence = r2.confidence /\ r1.report = r2.report
    /\ (api \in EvalApis /\ pc = "done" /\ strategy = "score")
       => /\ result \in Scored
          /\ result.initiative_id = scorer_event["initiative_id"]
          /\ result.confidence_range = confidence_range(reviewer)

\* a second scored evaluation of the job directory, now with a cost
\* override, a config and a filled impact_results.json, returned what the
\* first had returned
C30_Witness ==
    /\ api \in EvalApis /\ pc = "done" /\ strategy = "score"
    /\ calls = 1
    /\ cost = <<250>> /\ config # NoneConfig
    /\ scorer_event["cost_to_scale"] = 250
    /\ fs[IMPACT_RESULTS_FILENAME] # EmptyDict
    /\ returned = {result}
====
